---------------------------- MODULE Spec2Model ----------------------------
(***************************************************************************)
(* A model of the launcher's profile manager                               *)
(* (src-tauri/src/state/profile_state.rs): the persisted profile store,    *)
(* the path resolver, the profile registry behind its reader/writer lock,  *)
(* and the dependency engine of the mod operations.                        *)
(*                                                                         *)
(* Strings are sequences of tokens; the token "/" is the path separator.   *)
(* A PathBuf is a sequence of components, each component a string.         *)
(* Every asynchronous operation is a chain of steps of one task; a step    *)
(* ends where the code awaits a lock, the file system or a fetch.          *)
(***************************************************************************)
EXTENDS Integers, Sequences, FiniteSets, TLC

\* ------------------------------------------------------------------ bounds

\* Operations started in one behaviour.
MaxOps == 3
\* Backups kept by the rotating backup set (BackupConfig.max_backups_per_file,
\* scaled down).
MaxBackups == 2
\* Failures of the environment (file operations, fetches) in one behaviour.
MaxFaults == 2

\* ------------------------------------------------------------- value domains

None == "none"
Tasks == {"t1", "t2"}
ProfileIds == {"p1", "p2"}

\* ModLoader::as_str.
as_str(loader) ==
    CASE loader = "Vanilla" -> "vanilla"
      [] loader = "Forge" -> "forge"
      [] loader = "Fabric" -> "fabric"
      [] loader = "Quilt" -> "quilt"
      [] loader = "NeoForge" -> "neoforge"

\* str::to_lowercase on one token.
LowerToken(c) ==
    CASE c = "X" -> "x"
      [] c = "NRC" -> "nrc"
      [] c = "GEG" -> "geg"
      [] c = "SERVER" -> "server"
      [] c = "Server" -> "server"
      [] c = "Modpacks" -> "modpacks"
      [] OTHER -> c

to_lowercase(s) == [i \in DOMAIN s |-> LowerToken(s[i])]

\* ------------------------------------------------------------ path resolver

default_profile_path == << <<"profiles">> >>

is_GEG_client_group(group_name) ==
    LET normalized == to_lowercase(group_name)
    IN  normalized = <<"nrc">> \/ normalized = <<"GEG">> \/ normalized = <<"GEG", " ", "client">>

\* A check that takes no group for an isolated one.
NeverIsolated(group_name) == FALSE

is_isolated_group(group_name) ==
    LET normalized == to_lowercase(group_name)
    IN  normalized = <<"server">> \/ normalized = <<"modpacks">>

NotSeparator(c) == c # "/"

\* sanitize_filename::sanitize removes the separator from the lower-cased name.
sanitize_group_name(group_name) == SelectSeq(to_lowercase(group_name), NotSeparator)

should_use_shared_minecraft_folder(profile) ==
    IF profile.group # <<>> /\ is_isolated_group(profile.group)
    THEN FALSE
    ELSE profile.use_shared_minecraft_folder

RECURSIVE SplitFrom(_, _, _)
\* str::split('/') from position i on, cur being the segment begun.
SplitFrom(s, i, cur) ==
    IF i > Len(s) THEN <<cur>>
    ELSE IF s[i] = "/" THEN <<cur>> \o SplitFrom(s, i + 1, <<>>)
    ELSE SplitFrom(s, i + 1, Append(cur, s[i]))

NonEmpty(segment) == segment # <<>>

build_path_from_profile_path(profile) ==
    default_profile_path \o SelectSeq(SplitFrom(profile.path, 1, <<>>), NonEmpty)

\* mc_utils::is_legacy_minecraft_version: versions before 1.13.
is_legacy_minecraft_version(game_version) == game_version = "1.8.9"

calculate_group_directory(profile) ==
    IF profile.group # <<>>
    THEN IF is_GEG_client_group(profile.group)
         THEN IF is_legacy_minecraft_version(profile.game_version)
              THEN default_profile_path \o << <<"GEG">>, <<"legacy">> >>
              ELSE default_profile_path \o << <<"GEG">>, <<"new">> >>
         ELSE default_profile_path \o << <<"groups">>, sanitize_group_name(profile.group) >>
    ELSE build_path_from_profile_path(profile)

calculate_instance_path_for_profile(profile) ==
    IF should_use_shared_minecraft_folder(profile)
    THEN calculate_group_directory(profile)
    ELSE build_path_from_profile_path(profile)

\* ------------------------------------------------------------- mods paths

\* profile.id.to_string(): the hex digits of the Uuid in groups separated by
\* "-". An id is kept as that sequence of characters, the groups between its
\* first two and its last two digits shortened to one digit.
to_string(id) == id

NotHyphen(c) == c # "-"

\* The first two and the last two characters of the id without its hyphens.
uuid_short(id) ==
    LET uuid_str == SelectSeq(to_string(id), NotHyphen)
    IN  IF Len(uuid_str) >= 4
        THEN SubSeq(uuid_str, 1, 2) \o SubSeq(uuid_str, Len(uuid_str) - 1, Len(uuid_str))
        ELSE uuid_str

get_profile_mods_path_single(profile) ==
    LET instance_path == calculate_instance_path_for_profile(profile)
    IN  IF profile.loader = "Fabric"
        THEN instance_path \o
                << <<"mods">>, <<"nrc", "-", profile.game_version, "-", "fabric">> >>
        ELSE Append(instance_path, <<"mods">>)

get_profile_mods_path_shared(profile) ==
    LET instance_path == calculate_instance_path_for_profile(profile)
    IN  IF profile.loader = "Fabric"
        THEN instance_path \o
                << <<"mods">>,
                   <<"nrc", "-", profile.game_version, "-", "fabric", "-">>
                      \o uuid_short(profile.id) >>
        ELSE Append(instance_path, <<"mods">>)

\* A choice by the shared-folder flag alone.
ByFlagAlone(profile) == ~should_use_shared_minecraft_folder(profile)

\* if profile.is_standard_version || !profile.should_use_shared_minecraft_folder()
UsesSingle(profile) ==
    profile.is_standard_version \/ ~should_use_shared_minecraft_folder(profile)

get_profile_mods_path(profile) ==
    IF UsesSingle(profile)
    THEN get_profile_mods_path_single(profile)
    ELSE get_profile_mods_path_shared(profile)

\* ------------------------------------------------------------------ records

NoGroup == <<>>

\* ModSource: the variants Local, Modrinth and CurseForge. The field file stands
\* for the triple (file_name, download_url, file_hash_sha1) of the registry variants;
\* version_id is the file_id of a CurseForge source.
ModSource(variant, project_id, version_id, file) ==
    [variant |-> variant, project_id |-> project_id, version_id |-> version_id, file |-> file]

LocalSource(file_name) == ModSource("Local", "-", "-", file_name)

\* struct Mod (id, source, enabled, version, game_versions, updates_enabled), as
\* the add operations build it: enabled, with updates enabled.
Mod(id, source, version, game_versions) ==
    [id |-> id, source |-> source, enabled |-> TRUE, version |-> version,
     game_versions |-> game_versions, updates_enabled |-> TRUE]

\* struct GEGModIdentifier.
GEGModIdentifier(pack_id, mod_id, game_version, loader) ==
    [pack_id |-> pack_id, mod_id |-> mod_id, game_version |-> game_version,
     loader |-> loader]

\* struct Profile: a user profile that no template stands behind, with the
\* defaults of its other fields. created and last_played are kept in one field,
\* timestamps; banner and background hold the image source.
Profile(id, path, group, shared, game_version, loader, mods) ==
    [id |-> id, path |-> path, group |-> group, use_shared_minecraft_folder |-> shared,
     game_version |-> game_version, loader |-> loader, mods |-> mods,
     name |-> "profile", loader_version |-> None, description |-> None,
     selected_GEG_pack_id |-> None, banner |-> None, background |-> None,
     is_standard_version |-> FALSE, source_standard_profile_id |-> None,
     settings |-> "default", state |-> "NotInstalled",
     disabled_GEG_mods_detailed |-> {}, timestamps |-> 0]

\* --------------------------------------------------------- JSON conversion

\* #[serde(rename_all = "snake_case", tag = "type")] on ModSource.
SourceTag(variant) ==
    CASE variant = "Local" -> "local"
      [] variant = "Modrinth" -> "modrinth"
      [] variant = "CurseForge" -> "curse_forge"

SourceVariant(tag) ==
    CASE tag = "local" -> "Local"
      [] tag = "modrinth" -> "Modrinth"
      [] tag = "curse_forge" -> "CurseForge"

\* #[serde(rename_all = "lowercase")] on ModLoader.
LoaderFromJson(s) ==
    CASE s = "vanilla" -> "Vanilla"
      [] s = "forge" -> "Forge"
      [] s = "fabric" -> "Fabric"
      [] s = "quilt" -> "Quilt"
      [] s = "neoforge" -> "NeoForge"

ModToJson(m) ==
    [id |-> m.id, type |-> SourceTag(m.source.variant), project_id |-> m.source.project_id,
     version_id |-> m.source.version_id, file |-> m.source.file, enabled |-> m.enabled,
     version |-> m.version, game_versions |-> m.game_versions,
     updates_enabled |-> m.updates_enabled]

ModFromJson(j) ==
    [id |-> j.id,
     source |-> ModSource(SourceVariant(j.type), j.project_id, j.version_id, j.file),
     enabled |-> j.enabled, version |-> j.version, game_versions |-> j.game_versions,
     updates_enabled |-> j.updates_enabled]

\* The loader of a GEGModIdentifier is written and read as the loader of a profile.
IdentifierToJson(i) == [i EXCEPT !.loader = as_str(i.loader)]

IdentifierFromJson(j) == [j EXCEPT !.loader = LoaderFromJson(j.loader)]

ProfileToJson(p) ==
    [p EXCEPT !.loader = as_str(p.loader),
              !.mods = [i \in DOMAIN p.mods |-> ModToJson(p.mods[i])],
              !.disabled_GEG_mods_detailed = {IdentifierToJson(i) : i \in @}]

ProfileFromJson(j) ==
    [j EXCEPT !.loader = LoaderFromJson(j.loader),
              !.mods = [i \in DOMAIN j.mods |-> ModFromJson(j.mods[i])],
              !.disabled_GEG_mods_detailed = {IdentifierFromJson(i) : i \in @}]

\* serde_json::to_string_pretty(&profiles_vec): the array of the map's values (the
\* keys are not written); the array is kept as the set of its objects.
SerializeProfiles(map) == {ProfileToJson(map[k]) : k \in DOMAIN map}

\* profiles.into_iter().map(|p| (p.id, p)).collect(): the maps a parsed array can
\* collect to (of two objects with one id, the later one wins; the order is the
\* hash map's).
CollectById(data) ==
    LET ids == {j.id : j \in data}
    IN  {f \in [ids -> {ProfileFromJson(j) : j \in data}] : \A i \in ids : f[i].id = i}

\* The content of a file: absent, unparsable, or a JSON array of profiles.
AbsentFile == [state |-> "absent", data |-> {}]
CorruptFile == [state |-> "corrupt", data |-> {}]
ValidFile(data) == [state |-> "valid", data |-> data]

EmptyMap == [k \in {} |-> None]
MapInsert(map, k, v) == [x \in DOMAIN map \cup {k} |-> IF x = k THEN v ELSE map[x]]
MapRemove(map, k) == [x \in DOMAIN map \ {k} |-> map[x]]

\* ------------------------------------------------------------------- state

VARIABLES
    profiles,   \* ProfileManager.profiles: the map Uuid -> Profile
    file,       \* the content of profiles.json
    backups,    \* the backup set of profiles.json, the most recent last
    corrupted,  \* the copies profiles.corrupted.<timestamp> left on disk
    dirs,       \* the directories and files on disk, each by its path
    trash,      \* the directories moved to trash
    guards,     \* the lock guards each task holds: "write", "read" (map), "save"
    tk,         \* each task's position and locals
    nOps,       \* operations started
    nextUuid,   \* the Uuid::new_v4() values drawn
    catalog,    \* the package registries' answer: project -> list of versions
    active,     \* the tasks that run operations
    log,        \* the fetches of the dependency loops, each with its outcome
    nFaults     \* the failures the environment has answered with

vars == <<profiles, file, backups, corrupted, dirs, trash, guards, tk, nOps, nextUuid,
          catalog, active, log, nFaults>>

diskVars == <<file, backups, corrupted>>
fsVars == <<dirs, trash>>
envVars == <<catalog, active, log, nFaults>>
quietVars == <<catalog, active, log>>
registryVars == <<catalog, active>>

\* What an operation of the environment may answer: success, or failure while
\* the environment has failures left.
Outcomes == IF nFaults < MaxFaults THEN BOOLEAN ELSE {TRUE}

\* The environment has answered with n more failures.
Failed(n) == nFaults' = nFaults + n
Spent(ok) == Failed(IF ok THEN 0 ELSE 1)

\* A task that runs nothing.
IdleTask ==
    [pc |-> "idle", call |-> [name |-> None], ret |-> None, stack |-> <<>>,
     loc |-> [x |-> None], cont |-> None, sres |-> None, snap |-> {}, restore |-> None,
     cres |-> None]

\* A lock that grants every request at once.
AlwaysGranted(t) == TRUE

\* A save lock that excludes nobody.
SaveUnserialized(t) == TRUE

\* tokio::sync::RwLock and Mutex: a guard is granted when no conflicting guard is
\* held, by any task, the requesting one included (the locks are not reentrant).
CanWrite(t) == \A u \in Tasks : guards[u] \cap {"write", "read"} = {}
CanRead(t) == \A u \in Tasks : "write" \notin guards[u]
CanSave(t) == \A u \in Tasks : "save" \notin guards[u]

\* A drop that leaves the guards as they are.
StillHeld(t) == guards[t]

\* drop(profiles): the guards of the task once its write guard is gone.
Dropped(t) == guards[t] \ {"write"}

Idle(t) == t \in active /\ tk[t].pc \in {"idle", "done"} /\ nOps < MaxOps

\* The task begins operation call at position pc0.
Begin(t, call, pc0, loc) ==
    /\ tk' = [tk EXCEPT ![t] = [IdleTask EXCEPT !.pc = pc0, !.call = call, !.loc = loc]]
    /\ nOps' = nOps + 1

\* The operation returns r: every guard still in scope is dropped.
Return(t, r) ==
    /\ tk' = [tk EXCEPT ![t].pc = "done", ![t].ret = r, ![t].stack = <<>>]
    /\ guards' = [guards EXCEPT ![t] = {}]

\* ------------------------------------------------------------ backup utils

\* backup_utils::list_backups(path, "profiles"): the backup set, or an error.
list_backups == {[ok |-> ok, backups |-> IF ok THEN backups ELSE <<>>] : ok \in Outcomes}

\* backup_utils::restore_from_backup(path, "profiles"): fails without a backup and
\* may fail with one; when it succeeds the most recent backup replaces the file.
RestoreOutcomes ==
    IF backups = <<>>
    THEN {[ok |-> FALSE, file |-> file]}
    ELSE {[ok |-> ok, file |-> IF ok THEN backups[Len(backups)] ELSE file] : ok \in Outcomes}

\* The rotation of the backup set: the oldest backup leaves a full set.
Rotate(bs) == IF Len(bs) > MaxBackups THEN Tail(bs) ELSE bs

\* backup_utils::safe_write_with_backup(path, data, "profiles", config): may fail
\* and then changes nothing; otherwise it replaces the file, after adding the
\* previous file to the backup set unless the latest backup is younger than the
\* minimum interval (snapshot tells which).
WriteOutcomes(data) ==
    {[ok |-> ok, file |-> IF ok THEN ValidFile(data) ELSE file, backups |-> backups] :
        ok \in Outcomes}
    \cup {[ok |-> TRUE, file |-> ValidFile(data), backups |-> Rotate(Append(backups, file))] :
             snapshot \in IF file.state = "absent" THEN {} ELSE {TRUE}}

\* ------------------------------------------------------------ save_profiles

\* self.save_profiles().await, to go on at position after ("return": the operation
\* returns what the save returned).
EnterSave(t, after) ==
    tk' = [tk EXCEPT ![t].pc = "save_lock", ![t].cont = after, ![t].sres = None,
                     ![t].restore = None]

\* save_profiles returns res to the operation that called it.
Resume(t, res, restore) ==
    IF tk[t].cont = "return"
    THEN /\ tk' = [tk EXCEPT ![t].pc = "done", ![t].ret = res, ![t].stack = <<>>,
                             ![t].restore = restore]
         /\ guards' = [guards EXCEPT ![t] = {}]
    ELSE /\ tk' = [tk EXCEPT ![t].pc = tk[t].cont, ![t].sres = res,
                             ![t].restore = restore]
         /\ guards' = [guards EXCEPT ![t] = @ \ {"save"}]

\* let _guard = self.save_lock.lock().await
SaveLock(t) ==
    /\ tk[t].pc = "save_lock"
    /\ CanSave(t)
    /\ guards' = [guards EXCEPT ![t] = @ \cup {"save"}]
    /\ tk' = [tk EXCEPT ![t].pc = "save_snapshot"]
    /\ UNCHANGED <<profiles, diskVars, fsVars, nOps, nextUuid, envVars>>

\* A save that never looks for a backup to restore.
WritesAlways(map, listing) == FALSE

\* Whether save_profiles tries a restore instead of writing: the collection is
\* empty and the listing answers with at least one backup.
AttemptsRestore(map, listing) == DOMAIN map = {} /\ listing.ok /\ listing.backups # <<>>

\* The block that takes the read guard: the emptiness check with the restore from
\* backup, and the serialization of the whole map. restore keeps what became of
\* the recovery: "ok", "err", "list_err" when the listing failed, None when none
\* was due.
SaveSnapshot(t) ==
    /\ tk[t].pc = "save_snapshot"
    /\ CanRead(t)
    /\ \E listing \in list_backups :
          IF AttemptsRestore(profiles, listing)
          THEN \E r \in RestoreOutcomes :
                  /\ Spent(r.ok)
                  /\ IF r.ok
                     THEN /\ file' = r.file
                          /\ Resume(t, "ok", "ok")
                     ELSE /\ file' = file
                          /\ tk' = [tk EXCEPT ![t].pc = "save_write",
                                              ![t].snap = SerializeProfiles(profiles),
                                              ![t].restore = "err"]
                          /\ guards' = guards
          ELSE /\ file' = file
               /\ Spent(listing.ok \/ DOMAIN profiles # {})
               /\ tk' = [tk EXCEPT ![t].pc = "save_write",
                                   ![t].snap = SerializeProfiles(profiles),
                                   ![t].restore = IF DOMAIN profiles = {} /\ ~listing.ok
                                                  THEN "list_err" ELSE None]
               /\ guards' = guards
    /\ UNCHANGED <<profiles, backups, corrupted, fsVars, nOps, nextUuid, quietVars>>

\* safe_write_with_backup(...).await?
SaveWrite(t) ==
    /\ tk[t].pc = "save_write"
    /\ \E w \in WriteOutcomes(tk[t].snap) :
          /\ file' = w.file
          /\ backups' = w.backups
          /\ IF w.ok
             THEN tk' = [tk EXCEPT ![t].pc = "save_done"] /\ guards' = guards
             ELSE Resume(t, "err_io", tk[t].restore)
          /\ Spent(w.ok)
    /\ UNCHANGED <<profiles, corrupted, fsVars, nOps, nextUuid, quietVars>>

\* info!("... saved {} profiles", self.profiles.read().await.len()); Ok(())
SaveDone(t) ==
    /\ tk[t].pc = "save_done"
    /\ CanRead(t)
    /\ Resume(t, "ok", tk[t].restore)
    /\ UNCHANGED <<profiles, diskVars, fsVars, nOps, nextUuid, envVars>>

\* --------------------------------------------------- load_profiles_internal

\* A retry budget of one more pass.
one_more_attempt == 2 + 1

max_attempts == 2

\* A load that gives up at the first pass: no copy, no restore.
LoadWithoutRecovery(t) ==
    /\ tk[t].pc = "load_loop"
    /\ \E map \in IF file.state = "valid" THEN CollectById(file.data) ELSE {EmptyMap} :
          tk' = [tk EXCEPT ![t].pc = tk[t].loc.after, ![t].ret = "ok",
                           ![t].loc = [tk[t].loc EXCEPT !.attempt_count = 1,
                                                        !.loaded = map]]
    /\ UNCHANGED <<profiles, diskVars, fsVars, guards, nOps, nextUuid, envVars>>

\* One pass of the loop of load_profiles_internal. It ends the function with the
\* collection loaded (the caller goes on at position after), or restores a backup
\* and goes round again. The file operations that failed are kept in faults.
LoadAttempt(t) ==
    /\ tk[t].pc = "load_loop"
    /\ LET attempt_count == tk[t].loc.attempt_count + 1
           Finish(map, faults) ==
               tk' = [tk EXCEPT ![t].pc = tk[t].loc.after, ![t].ret = "ok",
                                ![t].loc = [tk[t].loc EXCEPT
                                               !.attempt_count = attempt_count,
                                               !.loaded = map,
                                               !.faults = faults]]
           Again(faults) ==
               tk' = [tk EXCEPT ![t].loc = [tk[t].loc EXCEPT
                                               !.attempt_count = attempt_count,
                                               !.faults = faults]]
           Restore(faults) ==
               \E r \in RestoreOutcomes :
                  /\ file' = r.file
                  /\ IF r.ok THEN Again(faults)
                     ELSE Finish(EmptyMap, faults \cup {"restore"})
       IN  IF file.state = "absent"
           THEN /\ corrupted' = corrupted
                /\ IF attempt_count = 1
                   THEN Restore(tk[t].loc.faults)
                   ELSE /\ file' = file
                        /\ Finish(EmptyMap, tk[t].loc.faults)
           ELSE \E read_ok \in Outcomes :
                   LET faults == IF read_ok THEN tk[t].loc.faults
                                 ELSE tk[t].loc.faults \cup {"read"}
                   IN  IF read_ok /\ file.state = "valid"
                       THEN /\ \E map \in CollectById(file.data) : Finish(map, faults)
                            /\ UNCHANGED <<file, corrupted>>
                       ELSE IF attempt_count < max_attempts
                       THEN IF read_ok
                            THEN \E copy_ok \in Outcomes :
                                    /\ corrupted' = IF copy_ok THEN corrupted \cup {file}
                                                    ELSE corrupted
                                    /\ Restore(IF copy_ok THEN faults
                                               ELSE faults \cup {"copy"})
                            ELSE /\ corrupted' = corrupted
                                 /\ Restore(faults)
                       ELSE /\ Finish(EmptyMap, faults)
                            /\ UNCHANGED <<file, corrupted>>
    /\ Failed(Cardinality(tk'[t].loc.faults \ tk[t].loc.faults))
    /\ UNCHANGED <<profiles, backups, fsVars, guards, nOps, nextUuid, quietVars>>

\* The locals of load_profiles_internal as it is entered, for a caller that goes
\* on at position after.
LoadLocals(after) ==
    [attempt_count |-> 0, loaded |-> EmptyMap, faults |-> {}, start |-> file,
     after |-> after]

\* load_profiles_internal on profiles.json, by itself.
StartLoad(t) ==
    /\ Idle(t)
    /\ Begin(t, [name |-> "load_profiles_internal"], "load_loop", LoadLocals("done"))
    /\ UNCHANGED <<profiles, diskVars, fsVars, guards, nextUuid, envVars>>

\* --------------------------------------------------- ensure_profiles_loaded

\* migration_utils::migrate_profiles(&mut loaded_profiles): the number of
\* migrations performed. The fields of a profile kept here are none that a
\* migration rewrites; the count is zero or more.
migrate_profiles(loaded_profiles) ==
    {[profiles |-> loaded_profiles, migration_count |-> n] : n \in {0, 1}}

\* ensure_profiles_loaded(), called by on_state_ready and sync_standard_profiles.
StartEnsureProfilesLoaded(t) ==
    /\ Idle(t)
    /\ Begin(t, [name |-> "ensure_profiles_loaded"], "ensure_check",
             LoadLocals("ensure_install"))
    /\ UNCHANGED <<profiles, diskVars, fsVars, guards, nextUuid, envVars>>

\* if profiles_guard.is_empty() under the read guard, which is dropped before the
\* load; a map that holds a profile ends the function.
EnsureCheck(t) ==
    /\ tk[t].pc = "ensure_check"
    /\ CanRead(t)
    /\ IF DOMAIN profiles = {}
       THEN /\ tk' = [tk EXCEPT ![t].pc = "load_loop",
                                ![t].loc = LoadLocals("ensure_install")]
            /\ guards' = guards
       ELSE Return(t, "ok")
    /\ UNCHANGED <<profiles, diskVars, fsVars, nOps, nextUuid, envVars>>

\* An install that merges the loaded collection into the map: a profile the map
\* holds already is kept.
MergeLoaded(map, loaded_profiles) ==
    [k \in DOMAIN map \cup DOMAIN loaded_profiles |->
        IF k \in DOMAIN map THEN map[k] ELSE loaded_profiles[k]]

\* *profiles_write_guard = loaded_profiles
InstallLoaded(map, loaded_profiles) == loaded_profiles

\* The migrations, then the loaded collection replaces the map under the write
\* guard; after a migration save_profiles follows.
EnsureInstall(t) ==
    /\ tk[t].pc = "ensure_install"
    /\ CanWrite(t)
    /\ \E m \in migrate_profiles(tk[t].loc.loaded) :
          /\ profiles' = InstallLoaded(profiles, m.profiles)
          /\ IF m.migration_count > 0
             THEN EnterSave(t, "return") /\ guards' = guards
             ELSE Return(t, "ok")
    /\ UNCHANGED <<diskVars, fsVars, nOps, nextUuid, envVars>>

\* ---------------------------------------------------------- the file system

IsPrefix(p, q) == Len(p) <= Len(q) /\ SubSeq(q, 1, Len(p)) = p

\* fs::create_dir_all(path): the directory and its missing ancestors.
WithAncestors(path) == {SubSeq(path, 1, n) : n \in 1..Len(path)}

create_dir_all(path) == dirs \cup WithAncestors(path)

\* trash_utils::move_path_to_trash(path, "profiles"): the directory leaves the
\* disk with all it holds.
move_path_to_trash(path) == {d \in dirs : ~IsPrefix(path, d)}

\* ------------------------------------------------- create / update / delete

\* create_profile(profile): the instance directory is created first.
StartCreateProfile(t, inputs) ==
    /\ Idle(t)
    /\ \E profile \in inputs :
          Begin(t, [name |-> "create_profile", id |-> profile.id, profile |-> profile],
                "create_dir", [x |-> None])
    /\ UNCHANGED <<profiles, diskVars, fsVars, guards, nextUuid, envVars>>

\* A creation of the directory whose failure is not looked at.
CreateDirUnchecked(t) ==
    /\ tk[t].pc = "create_dir"
    /\ \E ok \in Outcomes :
          /\ Spent(ok)
          /\ dirs' = IF ok THEN create_dir_all(
                                   calculate_instance_path_for_profile(tk[t].call.profile))
                     ELSE dirs
    /\ tk' = [tk EXCEPT ![t].pc = "create_insert"]
    /\ UNCHANGED <<profiles, diskVars, trash, guards, nOps, nextUuid, quietVars>>

\* fs::create_dir_all(&new_profile_instance_path).await?
CreateDir(t) ==
    /\ tk[t].pc = "create_dir"
    /\ \E ok \in Outcomes :
          /\ Spent(ok)
          /\ IF ok
             THEN /\ dirs' = create_dir_all(
                                 calculate_instance_path_for_profile(tk[t].call.profile))
                  /\ tk' = [tk EXCEPT ![t].pc = "create_insert"]
                  /\ guards' = guards
             ELSE /\ dirs' = dirs
                  /\ Return(t, "err_io")
    /\ UNCHANGED <<profiles, diskVars, trash, nOps, nextUuid, quietVars>>

\* profiles.insert(id, profile) under the write guard, then save_profiles.
CreateInsert(t) ==
    /\ tk[t].pc = "create_insert"
    /\ CanWrite(t)
    /\ profiles' = MapInsert(profiles, tk[t].call.id, tk[t].call.profile)
    /\ EnterSave(t, "return")
    /\ UNCHANGED <<diskVars, fsVars, guards, nOps, nextUuid, envVars>>

\* update_profile(id, profile): profiles.insert(id, profile), then save_profiles.
StartUpdateProfile(t, ids, inputs) ==
    /\ Idle(t)
    /\ \E id \in ids, profile \in inputs :
          Begin(t, [name |-> "update_profile", id |-> id, profile |-> profile],
                "update_insert", [x |-> None])
    /\ UNCHANGED <<profiles, diskVars, fsVars, guards, nextUuid, envVars>>

UpdateInsert(t) ==
    /\ tk[t].pc = "update_insert"
    /\ CanWrite(t)
    /\ profiles' = MapInsert(profiles, tk[t].call.id, tk[t].call.profile)
    /\ EnterSave(t, "return")
    /\ UNCHANGED <<diskVars, fsVars, guards, nOps, nextUuid, envVars>>

\* has_other_profile_with_same_path(exclude_id, target_path, path_calculator).
\* The closure path_calculator is a function on the profiles of the map.
has_other_profile_with_same_path(exclude_id, target_path, path_calculator) ==
    \E profile_id \in DOMAIN profiles :
       /\ profile_id # exclude_id
       /\ path_calculator[profiles[profile_id]] = target_path

\* |profile| self.calculate_instance_path_for_profile(profile).unwrap_or_default()
InstancePathOf ==
    [profile \in {profiles[k] : k \in DOMAIN profiles} |->
        calculate_instance_path_for_profile(profile)]

\* |profile| Self::build_path_from_profile_path(profile)
IndividualPathOf ==
    [profile \in {profiles[k] : k \in DOMAIN profiles} |->
        build_path_from_profile_path(profile)]

StartDeleteProfile(t, ids) ==
    /\ Idle(t)
    /\ \E id \in ids :
          Begin(t, [name |-> "delete_profile", id |-> id], "del_lookup",
                [profile_to_delete |-> None, profile_dir_path |-> <<>>,
                 individual_path |-> <<>>, should_delete |-> FALSE])
    /\ UNCHANGED <<profiles, diskVars, fsVars, guards, nextUuid, envVars>>

\* A miss that is reported as a success.
SilentSuccess(t) == Return(t, "ok")

\* return Err(AppError::ProfileNotFound(id))
ProfileNotFound(t) == Return(t, "err_profile_not_found")

\* profiles.get(&id).cloned() under a read guard; ProfileNotFound on a miss.
DeleteLookup(t) ==
    /\ tk[t].pc = "del_lookup"
    /\ CanRead(t)
    /\ IF tk[t].call.id \in DOMAIN profiles
       THEN /\ tk' = [tk EXCEPT ![t].pc = "del_check_main",
                        ![t].loc = [tk[t].loc EXCEPT
                           !.profile_to_delete = profiles[tk[t].call.id],
                           !.profile_dir_path =
                               calculate_instance_path_for_profile(profiles[tk[t].call.id]),
                           !.individual_path =
                               build_path_from_profile_path(profiles[tk[t].call.id])]]
            /\ guards' = guards
       ELSE ProfileNotFound(t)
    /\ UNCHANGED <<profiles, diskVars, fsVars, nOps, nextUuid, envVars>>

\* should_delete_directory: no other profile resolves to the instance path.
DeleteCheckMain(t) ==
    /\ tk[t].pc = "del_check_main"
    /\ CanRead(t)
    /\ tk' = [tk EXCEPT ![t].pc = "del_trash_main",
                ![t].loc = [tk[t].loc EXCEPT !.should_delete =
                   ~has_other_profile_with_same_path(tk[t].call.id, tk[t].loc.profile_dir_path,
                                                     InstancePathOf)]]
    /\ UNCHANGED <<profiles, diskVars, fsVars, guards, nOps, nextUuid, envVars>>

\* The instance directory is moved to trash; a failure ends delete_profile.
DeleteTrashMain(t) ==
    /\ tk[t].pc = "del_trash_main"
    /\ IF tk[t].loc.should_delete /\ tk[t].loc.profile_dir_path \in dirs
       THEN \E ok \in Outcomes :
               /\ Spent(ok)
               /\ IF ok
                  THEN /\ dirs' = move_path_to_trash(tk[t].loc.profile_dir_path)
                       /\ trash' = trash \cup {tk[t].loc.profile_dir_path}
                       /\ tk' = [tk EXCEPT ![t].pc = "del_check_individual"]
                       /\ guards' = guards
                  ELSE /\ UNCHANGED fsVars
                       /\ Return(t, "err_trash")
       ELSE /\ UNCHANGED <<fsVars, guards, nFaults>>
            /\ tk' = [tk EXCEPT ![t].pc = "del_check_individual"]
    /\ UNCHANGED <<profiles, diskVars, nOps, nextUuid, quietVars>>

\* The individual path, when it is not the instance path, is checked against the
\* individual paths of the other profiles.
DeleteCheckIndividual(t) ==
    /\ tk[t].pc = "del_check_individual"
    /\ IF tk[t].loc.individual_path # tk[t].loc.profile_dir_path
       THEN /\ CanRead(t)
            /\ tk' = [tk EXCEPT ![t].pc = "del_trash_individual",
                        ![t].loc = [tk[t].loc EXCEPT !.should_delete =
                           ~has_other_profile_with_same_path(tk[t].call.id,
                                                             tk[t].loc.individual_path,
                                                             IndividualPathOf)]]
       ELSE tk' = [tk EXCEPT ![t].pc = "del_remove"]
    /\ UNCHANGED <<profiles, diskVars, fsVars, guards, nOps, nextUuid, envVars>>

\* The individual directory is moved to trash; a failure is only logged.
DeleteTrashIndividual(t) ==
    /\ tk[t].pc = "del_trash_individual"
    /\ IF tk[t].loc.should_delete /\ tk[t].loc.individual_path \in dirs
       THEN \E ok \in Outcomes :
               /\ Spent(ok)
               /\ IF ok
                  THEN /\ dirs' = move_path_to_trash(tk[t].loc.individual_path)
                       /\ trash' = trash \cup {tk[t].loc.individual_path}
                  ELSE UNCHANGED fsVars
       ELSE UNCHANGED <<fsVars, nFaults>>
    /\ tk' = [tk EXCEPT ![t].pc = "del_remove"]
    /\ UNCHANGED <<profiles, diskVars, guards, nOps, nextUuid, quietVars>>

\* profiles.remove(&id) under the write guard, then save_profiles.
DeleteRemove(t) ==
    /\ tk[t].pc = "del_remove"
    /\ CanWrite(t)
    /\ profiles' = MapRemove(profiles, tk[t].call.id)
    /\ EnterSave(t, "return")
    /\ UNCHANGED <<diskVars, fsVars, guards, nOps, nextUuid, envVars>>

\* ------------------------------------------------ the registry specification

\* The profiles callers create: isolated ones, grouped ones that share a folder
\* (one of them with the path "groups"), one of an isolated group, one of a
\* client group.
ProfileInputs ==
    {Profile("p1", <<"a">>, NoGroup, FALSE, "1.20.1", "Fabric", <<>>),
     Profile("p1", <<"groups">>, <<"X">>, TRUE, "1.20.1", "Fabric", <<>>),
     Profile("p2", <<"/", "a", "/">>, NoGroup, TRUE, "1.20.1", "Fabric", <<>>),
     Profile("p1", <<"groups", "/", "x">>, <<"NRC">>, TRUE, "1.20.1", "Fabric", <<>>),
     Profile("p2", <<"b">>, <<"X">>, TRUE, "1.20.1", "Fabric", <<>>),
     Profile("p2", <<"b">>, <<"SERVER">>, TRUE, "1.8.9", "Forge", <<>>)}

InitTasks == tk = [t \in Tasks |-> IdleTask] /\ guards = [t \in Tasks |-> {}]

\* A started manager: the map is empty, and the disk holds what an earlier run
\* left.
Init ==
    /\ profiles = EmptyMap
    /\ file \in {AbsentFile, CorruptFile}
    /\ backups \in {<<>>, <<ValidFile({ProfileToJson(Profile("p1", <<"a">>, NoGroup, FALSE,
                                                            "1.20.1", "Fabric", <<>>))})>>}
    /\ corrupted = {}
    /\ dirs = {}
    /\ trash = {}
    /\ InitTasks
    /\ nOps = 0
    /\ nextUuid = 0
    /\ catalog = <<>>
    /\ active = {"t1"}
    /\ log = {}
    /\ nFaults = 0

Next ==
    \E t \in Tasks :
       \/ StartCreateProfile(t, ProfileInputs)
       \/ CreateDir(t)
       \/ CreateInsert(t)
       \/ StartUpdateProfile(t, ProfileIds, {profiles[k] : k \in DOMAIN profiles})
       \/ UpdateInsert(t)
       \/ StartDeleteProfile(t, ProfileIds)
       \/ DeleteLookup(t)
       \/ DeleteCheckMain(t)
       \/ DeleteTrashMain(t)
       \/ DeleteCheckIndividual(t)
       \/ DeleteTrashIndividual(t)
       \/ DeleteRemove(t)
       \/ StartLoad(t)
       \/ LoadAttempt(t)
       \/ SaveLock(t)
       \/ SaveSnapshot(t)
       \/ SaveWrite(t)
       \/ SaveDone(t)

Spec == Init /\ [][Next]_vars

\* The registry with a load that is run to its end: the runtime polls the
\* future of load_profiles_internal until it is ready, and each of its file
\* operations answers.
SpecLoad == Init /\ [][Next]_vars /\ WF_vars(\E t \in Tasks : LoadAttempt(t))

\* ------------------------------------------------- properties of the registry

\* The directory a step of delete_profile is about to move to trash.
TrashTarget(t) ==
    IF tk[t].pc = "del_trash_main" THEN tk[t].loc.profile_dir_path
    ELSE tk[t].loc.individual_path

\* The step of task t moves its target directory to trash.
MovesToTrash(t) ==
    /\ tk[t].pc \in {"del_trash_main", "del_trash_individual"}
    /\ TrashTarget(t) \in dirs
    /\ TrashTarget(t) \notin dirs'

\* C2: delete_profile never moves to trash a directory that is the resolved
\* instance path of another profile still in the registry, be it the primary
\* instance path or the individual path of the profile deleted.
C2_NeverTrashesAnothersInstance ==
    [][\A t \in Tasks :
          MovesToTrash(t) =>
             ~has_other_profile_with_same_path(tk[t].call.id, TrashTarget(t),
                                               InstancePathOf)]_vars

\* A load that ended without a failed file operation, the file on disk being the
\* saved form of the registry.
LoadedWhatWasSaved(t) ==
    /\ tk[t].pc = "done"
    /\ tk[t].call.name = "load_profiles_internal"
    /\ tk[t].loc.faults = {}
    /\ DOMAIN profiles # {}
    /\ file = ValidFile(SerializeProfiles(profiles))

\* C5: for every non-empty registry the public operations reach, save_profiles
\* followed by load_profiles_internal yields a map with the same profiles, each
\* under the same identity and with the same fields.
C5_RoundTrip == \A t \in Tasks : LoadedWhatWasSaved(t) => tk[t].loc.loaded = profiles

\* A load that began with an unparsable file and one backup, a valid one.
LoadedFromCorrupt(t) ==
    /\ tk[t].pc = "done"
    /\ tk[t].call.name = "load_profiles_internal"
    /\ tk[t].loc.start.state = "corrupt"
    /\ Len(backups) = 1
    /\ backups[1].state = "valid"

SnapshotsEmpty(t) ==
    /\ tk[t].pc = "save_snapshot"
    /\ tk'[t].pc # "save_snapshot"
    /\ DOMAIN profiles = {}
    /\ backups # <<>>

\* The restore is tried first; when it succeeds nothing is written and the save
\* returns success; when it fails the empty collection goes on to be written.
RestoresFirst(t) ==
    /\ tk'[t].restore \in {"ok", "err"}
    /\ tk'[t].restore = "ok" =>
          /\ tk'[t].pc = "done"
          /\ tk'[t].ret = "ok"
          /\ file' = backups[Len(backups)]
    /\ tk'[t].restore = "err" =>
          /\ tk'[t].pc = "save_write"
          /\ tk'[t].snap = {}
          /\ file' = file

Dependency(project_id, version_id, required) ==
    [project_id |-> project_id, version_id |-> version_id, required |-> required]

\* A test that takes every kind of dependency for a required one.
AnyKind(dependency) == TRUE

\* dependency.dependency_type == Required, relation_type.should_install()
IsRequired(dependency) == dependency.required

File(filename, primary) == [filename |-> filename, primary |-> primary]

\* ModrinthVersion, and CurseForgeFile with modId as project_id and the loaders
\* that extract_loaders_from_game_versions finds in gameVersions.
Version(id, project_id, version_number, dependencies, files, game_versions, loaders, date) ==
    [id |-> id, project_id |-> project_id, version_number |-> version_number,
     dependencies |-> dependencies, files |-> files, game_versions |-> game_versions,
     loaders |-> loaders, date_published |-> date]

\* A requires B, and B requires version a1 of A.
ModrinthCycle ==
    [p \in {"A", "B"} |->
        IF p = "A"
        THEN <<Version("a1", "A", "1.0", <<Dependency("B", None, TRUE)>>,
                       <<File("a1.jar", TRUE), File("a1-sources.jar", FALSE)>>,
                       {"1.20.1"}, {"fabric"}, 1)>>
        ELSE <<Version("b1", "B", "1.0", <<Dependency("A", "a1", TRUE)>>,
                       <<File("b1-sources.jar", FALSE), File("b1.jar", TRUE)>>,
                       {"1.20.1"}, {"fabric"}, 1)>>]

\* A requires B, C and (by version only) c1, and names an optional D; B requires
\* C; the newest version of C is for another game version and has no primary
\* file; a dependency of a2 names neither a project nor a version.
ModrinthDiamond ==
    [p \in {"A", "B", "C"} |->
        CASE p = "A" ->
               <<Version("a2", "A", "2.0",
                         <<Dependency("B", None, TRUE), Dependency("D", None, FALSE),
                           Dependency(None, "c1", TRUE), Dependency("C", None, TRUE)>>,
                         <<File("a2.jar", TRUE)>>, {"1.20.1"}, {"fabric"}, 2),
                 Version("a1", "A", "1.0",
                         <<Dependency("D", None, TRUE), Dependency(None, None, TRUE),
                           Dependency("C", "c2", TRUE)>>,
                         <<File("a1.jar", TRUE)>>, {}, {"fabric"}, 1)>>
          [] p = "B" ->
               <<Version("b1", "B", "1.0", <<Dependency("C", None, TRUE)>>,
                         <<File("b1.jar", TRUE)>>, {"1.20.1"}, {"fabric"}, 1)>>
          [] p = "C" ->
               <<Version("c2", "C", "2.0", <<>>, <<File("c2.zip", FALSE)>>,
                         {"1.19"}, {"fabric"}, 2),
                 Version("c1", "C", "1.0", <<>>, <<File("c1.jar", TRUE)>>,
                         {"1.20.1"}, {"fabric", "forge"}, 1)>>]

\* Mod 1 requires mod 2, whose newest file is for another loader in one registry.
CurseForgeFiles(loaders2) ==
    [p \in {"1", "2"} |->
        IF p = "1"
        THEN <<Version("11", "1", "one-1", <<Dependency("2", None, TRUE),
                                             Dependency("3", None, FALSE)>>,
                       <<File("one-1.jar", TRUE)>>, {"1.20.1"}, {"fabric"}, 1),
               Version("12", "1", "one-2", <<>>,
                       <<File("one-2.jar", TRUE)>>, {"1.20.1"}, {"fabric"}, 2)>>
        ELSE <<Version("21", "2", "two-1", <<>>,
                       <<File("two-1.jar", TRUE)>>, {"1.20.1"}, loaders2, 1)>>]

Catalogs ==
    {[Modrinth |-> ModrinthCycle, CurseForge |-> CurseForgeFiles({"fabric"})],
     [Modrinth |-> ModrinthDiamond, CurseForge |-> CurseForgeFiles({"forge"})]}

Versions(platform, project_id) ==
    IF project_id \in DOMAIN catalog[platform] THEN catalog[platform][project_id] ELSE <<>>

AllVersions(platform) ==
    UNION {{catalog[platform][p][i] : i \in DOMAIN catalog[platform][p]} :
              p \in DOMAIN catalog[platform]}

\* modrinth::get_mod_versions(project_id, loaders, game_versions) and
\* curseforge::get_mod_files: the project's versions that fit the filters given
\* (the empty set stands for None).
get_mod_versions(platform, project_id, loaders, game_versions) ==
    LET Fits(v) == /\ loaders = {} \/ v.loaders \cap loaders # {}
                   /\ game_versions = {} \/ v.game_versions \cap game_versions # {}
    IN  SelectSeq(Versions(platform, project_id), Fits)

\* unified_mod::get_mod_versions_unified(params): the first `limit` versions.
get_mod_versions_unified(platform, project_id, loaders, game_versions, limit) ==
    LET all == get_mod_versions(platform, project_id, loaders, game_versions)
    IN  SubSeq(all, 1, IF Len(all) < limit THEN Len(all) ELSE limit)

\* modrinth::get_version_details(version_id) and curseforge::get_file_details:
\* the versions with that id (none or one).
get_version_details(platform, version_id) ==
    {v \in AllVersions(platform) : v.id = version_id}

\* Iterator::find on a sequence: the first element that passes, in a set;
\* passes[i] tells whether element i passes the test.
Find(seq, passes) ==
    IF \E i \in DOMAIN seq : passes[i]
    THEN {seq[CHOOSE i \in DOMAIN seq : passes[i] /\ \A j \in 1..(i - 1) : ~passes[j]]}
    ELSE {}

IsPrimary(f) == f.primary

\* files.iter().find(|f| f.primary)
PrimaryFile(v) == Find(v.files, [i \in DOMAIN v.files |-> IsPrimary(v.files[i])])

\* files.iter().find(|f| f.primary).or_else(|| files.first())
PrimaryOrFirstFile(v) ==
    IF PrimaryFile(v) # {} THEN PrimaryFile(v)
    ELSE IF v.files # <<>> THEN {v.files[1]} ELSE {}

\* Iterator::max_by_key(|v| &v.date_published): the last of the greatest.
max_by_key(seq) ==
    IF seq = <<>> THEN {}
    ELSE {seq[CHOOSE i \in DOMAIN seq :
                 \A j \in DOMAIN seq :
                    \/ seq[j].date_published < seq[i].date_published
                    \/ seq[j].date_published = seq[i].date_published /\ j <= i]}

\* A choice that looks at the publication date alone.
LatestDependencyVersion(dep_versions, target_version_id, parent_game_versions, profile_game_version) ==
    max_by_key(dep_versions)

\* The version add_modrinth_mod_internal picks for a dependency: the one asked for
\* when it is listed; else the latest that supports one of the parent's game
\* versions (the profile's when the parent names none); else the latest.
BestDependencyVersion(dep_versions, target_version_id, parent_game_versions, profile_game_version) ==
    LET IsTarget == [i \in DOMAIN dep_versions |-> dep_versions[i].id = target_version_id]
        requested == IF target_version_id # None THEN Find(dep_versions, IsTarget) ELSE {}
        target_game_versions_for_dep ==
            IF parent_game_versions # {} THEN parent_game_versions
            ELSE {profile_game_version}
        Supports(v) == v.game_versions \cap target_game_versions_for_dep # {}
        attempt1 == max_by_key(SelectSeq(dep_versions, Supports))
    IN  IF requested # {} THEN requested
        ELSE IF attempt1 # {} THEN attempt1
        ELSE max_by_key(dep_versions)

\* ------------------------------------------------------- activations of a task

\* The activation record of a function that awaits inside a loop or calls back
\* into the manager: its arguments and its locals. stack holds the activations of
\* the running operation, the innermost last; pc is the position of the innermost.
Frame0 ==
    [fn |-> None, ret_pc |-> None, platform |-> "Modrinth", project_id |-> None,
     version_id |-> None, file_name |-> None, version_number |-> None,
     game_versions |-> {}, loaders |-> {}, add_dependencies |-> FALSE,
     visited_mods |-> {}, deps |-> <<>>, parent_game_versions |-> {},
     holds |-> FALSE, exists |-> FALSE, loader |-> None, game_version |-> None,
     mods |-> <<>>, parent |-> None]

Top(t) == tk[t].stack[Len(tk[t].stack)]

WithTop(t, f) == [tk[t].stack EXCEPT ![Len(tk[t].stack)] = f]

\* The innermost activation goes on at position pc with locals f.
Goto(t, pc, f) == tk' = [tk EXCEPT ![t].pc = pc, ![t].stack = WithTop(t, f)]

\* The innermost activation, left with locals f to go on at ret_pc, calls the
\* function whose activation g starts at position entry.
Call(t, f, ret_pc, g, entry) ==
    tk' = [tk EXCEPT ![t].pc = entry,
                     ![t].stack = Append(WithTop(t, [f EXCEPT !.ret_pc = ret_pc]), g)]

\* The innermost activation returns r to its caller, or to the caller of the
\* operation; the write guard it still holds is dropped.
Ret(t, r) ==
    /\ guards' = [guards EXCEPT ![t] = IF Top(t).holds THEN @ \ {"write"} ELSE @]
    /\ IF Len(tk[t].stack) = 1
       THEN tk' = [tk EXCEPT ![t].pc = "done", ![t].ret = r, ![t].stack = <<>>]
       ELSE tk' = [tk EXCEPT ![t].pc = tk[t].stack[Len(tk[t].stack) - 1].ret_pc,
                             ![t].cres = r,
                             ![t].stack = SubSeq(tk[t].stack, 1, Len(tk[t].stack) - 1)]

\* self.save_profiles().await from the innermost activation, left with locals f.
SaveFrom(t, f, after) ==
    tk' = [tk EXCEPT ![t].pc = "save_lock", ![t].cont = after, ![t].sres = None,
                     ![t].restore = None, ![t].stack = WithTop(t, f)]

\* The operation of task t begins with the activation f at position entry.
BeginCall(t, call, f, entry) ==
    /\ tk' = [tk EXCEPT ![t] = [IdleTask EXCEPT !.pc = entry, !.call = call,
                                                !.stack = <<f>>]]
    /\ nOps' = nOps + 1
    /\ log' = {e \in log : e.task # t}
    /\ UNCHANGED <<catalog, active, nFaults>>

\* What the innermost activation writes to the log (info!, warn!, error!), about
\* the version it works for (parent): "resolved" when add_modrinth_mod_internal
\* goes to work on it, "self" for the fetch of its own versions, "dep" for the
\* fetch for its dependency dep, "skip" for a dependency that names nothing to
\* fetch; ok tells whether the fetch answered.
Logged(t, kind, dep, ok) ==
    log \cup {[task |-> t, kind |-> kind, platform |-> Top(t).platform,
               parent |-> <<Top(t).project_id, Top(t).version_id>>,
               dep |-> dep, ok |-> ok]}

\* A loop that ends with the dependency it has dealt with.
AbortDependencies(deps) == <<>>

\* for dependency in ...: the dependencies left once the first is dealt with.
NextDependencies(deps) == Tail(deps)

\* A search that finds no equal source.
NoSourceIs(mods, source) == FALSE

\* profile.mods.iter().any(|m| m.source == source)
AnySourceIs(mods, source) == \E i \in DOMAIN mods : mods[i].source = source

\* let mut profiles = self.profiles.write().await
AcquireWrite(t, pc0, next) ==
    /\ tk[t].pc = pc0
    /\ CanWrite(t)
    /\ guards' = [guards EXCEPT ![t] = @ \cup {"write"}]
    /\ Goto(t, next, [Top(t) EXCEPT !.holds = TRUE])
    /\ UNCHANGED <<profiles, diskVars, fsVars, nOps, nextUuid, envVars>>

\* The source an activation of one of the add functions is about.
SourceOf(f) == ModSource(f.platform, f.project_id, f.version_id, f.file_name)

\* profile.mods.push(new_mod), the id drawn by Uuid::new_v4().
PushMod(profile_id, f) ==
    [profiles EXCEPT ![profile_id].mods =
        Append(@, Mod(nextUuid, SourceOf(f), f.version_number, f.game_versions))]

\* ------------------------------------------------------ add_mod and delete_mod

\* add_mod(profile_id, mod_info): the whole body runs under the write guard.
StartAddMod(t, ids, sources) ==
    /\ Idle(t)
    /\ \E profile_id \in ids, source \in sources :
          BeginCall(t, [name |-> "add_mod", profile_id |-> profile_id, source |-> source,
                        add_dependencies |-> FALSE,
                        before |-> profiles[profile_id].mods],
                    [Frame0 EXCEPT !.fn = "add_mod", !.platform = source.variant,
                                   !.project_id = source.project_id,
                                   !.version_id = source.version_id,
                                   !.file_name = source.file],
                    "am_lock")
    /\ UNCHANGED <<profiles, diskVars, fsVars, guards, nextUuid>>

AddModLock(t) == AcquireWrite(t, "am_lock", "am_check")

\* profiles.get_mut(&profile_id) and the search for an equal source.
AddModCheck(t) ==
    /\ tk[t].pc = "am_check"
    /\ IF tk[t].call.profile_id \notin DOMAIN profiles
       THEN Ret(t, "err_profile_not_found")
       ELSE IF AnySourceIs(profiles[tk[t].call.profile_id].mods, SourceOf(Top(t)))
       THEN Ret(t, "err_mod_exists")
       ELSE /\ Goto(t, "am_push", Top(t))
            /\ guards' = guards
    /\ UNCHANGED <<profiles, diskVars, fsVars, nOps, nextUuid, envVars>>

\* profile.mods.push(mod_info); drop(profiles); self.save_profiles().await?
AddModPush(t) ==
    /\ tk[t].pc = "am_push"
    /\ tk[t].call.profile_id \in DOMAIN profiles
    /\ profiles' = PushMod(tk[t].call.profile_id, Top(t))
    /\ nextUuid' = nextUuid + 1
    /\ guards' = [guards EXCEPT ![t] = Dropped(t)]
    /\ SaveFrom(t, [Top(t) EXCEPT !.holds = FALSE], "am_saved")
    /\ UNCHANGED <<diskVars, fsVars, nOps, envVars>>

\* The value of save_profiles is the value of the operation.
ReturnSaved(t, pc0) ==
    /\ tk[t].pc = pc0
    /\ Ret(t, tk[t].sres)
    /\ UNCHANGED <<profiles, diskVars, fsVars, nOps, nextUuid, envVars>>

AddModSaved(t) == ReturnSaved(t, "am_saved")

\* delete_mod(profile_id, mod_id): retain under the write guard, then save.
StartDeleteMod(t, ids) ==
    /\ Idle(t)
    /\ \E profile_id \in ids :
       \E mod_id \in {profiles[profile_id].mods[i].id : i \in DOMAIN profiles[profile_id].mods}
                     \cup {nextUuid} :
          BeginCall(t, [name |-> "delete_mod", profile_id |-> profile_id, mod_id |-> mod_id],
                    [Frame0 EXCEPT !.fn = "delete_mod"], "dm_lock")
    /\ UNCHANGED <<profiles, diskVars, fsVars, guards, nextUuid>>

DeleteModLock(t) == AcquireWrite(t, "dm_lock", "dm_retain")

DeleteModRetain(t) ==
    /\ tk[t].pc = "dm_retain"
    /\ LET profile_id == tk[t].call.profile_id
           KeepsId(m) == m.id # tk[t].call.mod_id
       IN  IF profile_id \notin DOMAIN profiles
           THEN /\ Ret(t, "err_profile_not_found")
                /\ profiles' = profiles
           ELSE IF Len(SelectSeq(profiles[profile_id].mods, KeepsId))
                      < Len(profiles[profile_id].mods)
           THEN /\ profiles' = [profiles EXCEPT ![profile_id].mods = SelectSeq(@, KeepsId)]
                /\ guards' = [guards EXCEPT ![t] = Dropped(t)]
                /\ SaveFrom(t, [Top(t) EXCEPT !.holds = FALSE], "dm_saved")
           ELSE /\ Ret(t, "err_mod_not_found")
                /\ profiles' = profiles
    /\ UNCHANGED <<diskVars, fsVars, nOps, nextUuid, envVars>>

DeleteModSaved(t) == ReturnSaved(t, "dm_saved")

\* ------------------------------------- add_modrinth_mod and its recursive body

\* An activation that receives no visited set.
UnvisitedFrame(v, primary_file, add_dependencies, visited_mods) ==
    [Frame0 EXCEPT !.fn = "add_modrinth_mod_internal", !.platform = "Modrinth",
                   !.project_id = v.project_id, !.version_id = v.id,
                   !.file_name = primary_file.filename,
                   !.version_number = v.version_number,
                   !.game_versions = v.game_versions, !.loaders = v.loaders,
                   !.add_dependencies = add_dependencies]

\* The activation of add_modrinth_mod_internal for the file primary_file of
\* version v, with the visited set it receives.
ModrinthFrame(v, primary_file, add_dependencies, visited_mods) ==
    [Frame0 EXCEPT !.fn = "add_modrinth_mod_internal", !.platform = "Modrinth",
                   !.project_id = v.project_id, !.version_id = v.id,
                   !.file_name = primary_file.filename,
                   !.version_number = v.version_number,
                   !.game_versions = v.game_versions, !.loaders = v.loaders,
                   !.add_dependencies = add_dependencies, !.visited_mods = visited_mods]

\* add_modrinth_mod(...): add_modrinth_mod_internal with HashSet::new().
StartAddModrinthMod(t, ids, versions, flags) ==
    /\ Idle(t)
    /\ \E profile_id \in ids, v \in versions, add_dependencies \in flags :
       \E i \in DOMAIN v.files :
          BeginCall(t, [name |-> "add_modrinth_mod", profile_id |-> profile_id,
                        source |-> ModSource("Modrinth", v.project_id, v.id,
                                             v.files[i].filename),
                        add_dependencies |-> add_dependencies,
                        before |-> profiles[profile_id].mods],
                    ModrinthFrame(v, v.files[i], add_dependencies, {}), "mr_enter")
    /\ UNCHANGED <<profiles, diskVars, fsVars, guards, nextUuid>>

\* The check of visited_mods, and the clone with mod_key inserted.
ModrinthEnter(t) ==
    /\ tk[t].pc = "mr_enter"
    /\ LET mod_key == <<Top(t).project_id, Top(t).version_id>>
       IN  IF mod_key \in Top(t).visited_mods
           THEN Ret(t, "ok") /\ log' = log
           ELSE /\ Goto(t, "mr_lock", [Top(t) EXCEPT !.visited_mods = @ \cup {mod_key}])
                /\ guards' = guards
                /\ log' = Logged(t, "resolved",
                                 Dependency(Top(t).project_id, Top(t).version_id, TRUE), TRUE)
    /\ UNCHANGED <<profiles, diskVars, fsVars, nOps, nextUuid, registryVars, nFaults>>

ModrinthLock(t) == AcquireWrite(t, "mr_lock", "mr_check")

\* profiles.get_mut(&profile_id) and the search for an equal source.
ModrinthCheck(t) ==
    /\ tk[t].pc = "mr_check"
    /\ IF tk[t].call.profile_id \notin DOMAIN profiles
       THEN Ret(t, "err_profile_not_found")
       ELSE /\ Goto(t, "mr_push",
                    [Top(t) EXCEPT !.exists =
                        AnySourceIs(profiles[tk[t].call.profile_id].mods, SourceOf(Top(t)))])
            /\ guards' = guards
    /\ UNCHANGED <<profiles, diskVars, fsVars, nOps, nextUuid, envVars>>

\* The push of the new Mod; the write guard ends with its block; save_profiles
\* when needs_save.
ModrinthPush(t) ==
    /\ tk[t].pc = "mr_push"
    /\ tk[t].call.profile_id \in DOMAIN profiles
    /\ guards' = [guards EXCEPT ![t] = Dropped(t)]
    /\ IF Top(t).exists
       THEN /\ Goto(t, "mr_deps", [Top(t) EXCEPT !.holds = FALSE])
            /\ UNCHANGED <<profiles, nextUuid>>
       ELSE /\ profiles' = PushMod(tk[t].call.profile_id, Top(t))
            /\ nextUuid' = nextUuid + 1
            /\ SaveFrom(t, [Top(t) EXCEPT !.holds = FALSE], "mr_saved")
    /\ UNCHANGED <<diskVars, fsVars, nOps, envVars>>

\* self.save_profiles().await?
ModrinthSaved(t) ==
    /\ tk[t].pc = "mr_saved"
    /\ IF tk[t].sres = "ok"
       THEN /\ Goto(t, "mr_deps", Top(t))
            /\ guards' = guards
       ELSE Ret(t, tk[t].sres)
    /\ UNCHANGED <<profiles, diskVars, fsVars, nOps, nextUuid, envVars>>

\* if add_dependencies: self.get_profile(profile_id).await?
ModrinthDeps(t) ==
    /\ tk[t].pc = "mr_deps"
    /\ IF ~Top(t).add_dependencies
       THEN Ret(t, "ok")
       ELSE /\ CanRead(t)
            /\ IF tk[t].call.profile_id \in DOMAIN profiles
               THEN /\ Goto(t, "mr_fetch",
                            [Top(t) EXCEPT
                                !.loader = as_str(profiles[tk[t].call.profile_id].loader),
                                !.game_version = profiles[tk[t].call.profile_id].game_version])
                    /\ guards' = guards
               ELSE Ret(t, "err_profile_not_found")
    /\ UNCHANGED <<profiles, diskVars, fsVars, nOps, nextUuid, envVars>>

\* modrinth::get_mod_versions(project_id, None, None) and the search for
\* version_id among the versions; a failure and a miss are logged.
ModrinthFetch(t) ==
    /\ tk[t].pc = "mr_fetch"
    /\ \E ok \in Outcomes :
          LET versions == get_mod_versions("Modrinth", Top(t).project_id, {}, {})
              IsVersion == [i \in DOMAIN versions |-> versions[i].id = Top(t).version_id]
              version_info == IF ok THEN Find(versions, IsVersion) ELSE {}
          IN  /\ IF version_info = {}
                 THEN Ret(t, "ok")
                 ELSE /\ \E v \in version_info :
                            Goto(t, "mr_dep",
                                 [Top(t) EXCEPT !.deps = v.dependencies,
                                                !.parent_game_versions = v.game_versions])
                      /\ guards' = guards
              /\ log' = Logged(t, "self",
                               Dependency(Top(t).project_id, Top(t).version_id, TRUE), ok)
              /\ Spent(ok)
    /\ UNCHANGED <<profiles, diskVars, fsVars, nOps, nextUuid, registryVars>>

\* One pass of `for dependency in version_info.dependencies`: a dependency that
\* is not required is passed over; for a required one the versions of its project
\* (or, without a project, the version named) are fetched, one is picked, and
\* add_modrinth_mod_internal is called for its primary file. Whatever fails is
\* logged, and the loop goes on.
ModrinthDep(t) ==
    /\ tk[t].pc = "mr_dep"
    /\ IF Top(t).deps = <<>>
       THEN /\ Ret(t, "ok")
            /\ UNCHANGED <<log, nFaults>>
       ELSE LET dependency == Head(Top(t).deps)
                rest == [Top(t) EXCEPT !.deps = NextDependencies(@)]
                Recurse(selected) ==
                    \* the versions picked that have a primary file
                    IF \E v \in selected : PrimaryFile(v) # {}
                    THEN \E v \in selected : \E primary_file \in PrimaryFile(v) :
                            Call(t, rest, "mr_dep",
                                 ModrinthFrame(v, primary_file, TRUE, Top(t).visited_mods),
                                 "mr_enter")
                    ELSE Goto(t, "mr_dep", rest)
            IN  /\ guards' = guards
                /\ IF ~IsRequired(dependency)
                   THEN /\ Goto(t, "mr_dep", rest)
                        /\ UNCHANGED <<log, nFaults>>
                   ELSE IF dependency.project_id # None
                   THEN \E ok \in Outcomes :
                           /\ log' = Logged(t, "dep", dependency, ok)
                           /\ Spent(ok)
                           /\ IF ok
                              THEN Recurse(BestDependencyVersion(
                                       get_mod_versions("Modrinth", dependency.project_id,
                                                        {Top(t).loader}, {}),
                                       dependency.version_id,
                                       Top(t).parent_game_versions,
                                       Top(t).game_version))
                              ELSE Goto(t, "mr_dep", rest)
                   ELSE IF dependency.version_id # None
                   THEN \E ok \in Outcomes :
                           /\ log' = Logged(t, "dep", dependency, ok)
                           /\ Spent(ok)
                           /\ IF ok
                              THEN Recurse(get_version_details("Modrinth",
                                                               dependency.version_id))
                              ELSE Goto(t, "mr_dep", rest)
                   ELSE /\ Goto(t, "mr_dep", rest)
                        /\ log' = Logged(t, "skip", dependency, FALSE)
                        /\ nFaults' = nFaults
    /\ UNCHANGED <<profiles, diskVars, fsVars, nOps, nextUuid, registryVars>>

\* ----------------------------- add_mod_from_payload and the install functions

\* curseforge::get_file_details(mod_id, file_id): the file, when the mod has it.
get_file_details(mod_id, file_id) ==
    {v \in AllVersions("CurseForge") : v.id = file_id /\ v.project_id = mod_id}

\* The activation of add_mod_from_payload for an InstallContentPayload made of
\* file payload_file of version v.
PayloadFrame(platform, v, payload_file, add_dependencies) ==
    [Frame0 EXCEPT !.fn = "add_mod_from_payload", !.platform = platform,
                   !.project_id = v.project_id, !.version_id = v.id,
                   !.file_name = payload_file.filename,
                   !.version_number = v.version_number,
                   !.game_versions = v.game_versions, !.loaders = v.loaders,
                   !.add_dependencies = add_dependencies]

\* The activation of install_modrinth_dependencies or
\* install_curseforge_dependencies for version (file) v.
InstallFrame(platform, v) ==
    [Frame0 EXCEPT !.fn = IF platform = "Modrinth" THEN "install_modrinth_dependencies"
                          ELSE "install_curseforge_dependencies",
                   !.platform = platform, !.project_id = v.project_id,
                   !.version_id = v.id, !.deps = v.dependencies]

\* add_mod_from_payload(payload, add_dependencies), called by the front end.
StartAddModFromPayload(t, ids, platforms, flags) ==
    /\ Idle(t)
    /\ \E profile_id \in ids, platform \in platforms, add_dependencies \in flags :
       \E v \in AllVersions(platform) : \E i \in DOMAIN v.files :
          BeginCall(t, [name |-> "add_mod_from_payload", profile_id |-> profile_id,
                        source |-> ModSource(platform, v.project_id, v.id,
                                             v.files[i].filename),
                        add_dependencies |-> add_dependencies,
                        before |-> profiles[profile_id].mods],
                    PayloadFrame(platform, v, v.files[i], add_dependencies), "pl_lock")
    /\ UNCHANGED <<profiles, diskVars, fsVars, guards, nextUuid>>

PayloadLock(t) == AcquireWrite(t, "pl_lock", "pl_check")

\* profiles.get_mut(&payload.profile_id) and the search for an equal source.
PayloadCheck(t) ==
    /\ tk[t].pc = "pl_check"
    /\ IF tk[t].call.profile_id \notin DOMAIN profiles
       THEN Ret(t, "err_profile_not_found")
       ELSE /\ Goto(t, "pl_push",
                    [Top(t) EXCEPT !.exists =
                        AnySourceIs(profiles[tk[t].call.profile_id].mods, SourceOf(Top(t)))])
            /\ guards' = guards
    /\ UNCHANGED <<profiles, diskVars, fsVars, nOps, nextUuid, envVars>>

\* The push with drop(profiles) and save_profiles; in the other branch ("already
\* exists") nothing drops the write guard, which lives on to the end of the
\* function.
PayloadPush(t) ==
    /\ tk[t].pc = "pl_push"
    /\ tk[t].call.profile_id \in DOMAIN profiles
    /\ IF Top(t).exists
       THEN /\ Goto(t, "pl_deps", Top(t))
            /\ UNCHANGED <<profiles, nextUuid, guards>>
       ELSE /\ profiles' = PushMod(tk[t].call.profile_id, Top(t))
            /\ nextUuid' = nextUuid + 1
            /\ guards' = [guards EXCEPT ![t] = Dropped(t)]
            /\ SaveFrom(t, [Top(t) EXCEPT !.holds = FALSE], "pl_saved")
    /\ UNCHANGED <<diskVars, fsVars, nOps, envVars>>

\* self.save_profiles().await?
PayloadSaved(t) ==
    /\ tk[t].pc = "pl_saved"
    /\ IF tk[t].sres = "ok"
       THEN /\ Goto(t, "pl_deps", Top(t))
            /\ guards' = guards
       ELSE Ret(t, tk[t].sres)
    /\ UNCHANGED <<profiles, diskVars, fsVars, nOps, nextUuid, envVars>>

\* if add_dependencies: install_dependencies_for_mod, which asks for the first
\* version that fits the payload's loaders and game versions and looks for the
\* payload's version in the answer.
PayloadDeps(t) ==
    /\ tk[t].pc = "pl_deps"
    /\ IF ~Top(t).add_dependencies
       THEN /\ Ret(t, "ok")
            /\ UNCHANGED <<log, nFaults>>
       ELSE \E ok \in Outcomes :
               LET versions == IF ok
                               THEN get_mod_versions_unified(
                                        Top(t).platform, Top(t).project_id,
                                        Top(t).loaders, Top(t).game_versions, 1)
                               ELSE <<>>
                   IsVersion == [i \in DOMAIN versions |-> versions[i].id = Top(t).version_id]
               IN  /\ log' = Logged(t, "self",
                                    Dependency(Top(t).project_id, Top(t).version_id, TRUE), ok)
                   /\ Spent(ok)
                   /\ IF Find(versions, IsVersion) = {}
                      THEN Ret(t, "ok")
                      ELSE /\ Goto(t, "pl_details", Top(t))
                           /\ guards' = guards
    /\ UNCHANGED <<profiles, diskVars, fsVars, nOps, nextUuid, registryVars>>

\* get_version_details / get_file_details for the payload's version, and the call
\* of the platform's install function with the answer.
PayloadDetails(t) ==
    /\ tk[t].pc = "pl_details"
    /\ \E ok \in Outcomes :
          LET full_version ==
                  IF ~ok THEN {}
                  ELSE IF Top(t).platform = "Modrinth"
                  THEN get_version_details("Modrinth", Top(t).version_id)
                  ELSE get_file_details(Top(t).project_id, Top(t).version_id)
          IN  /\ log' = Logged(t, "self",
                               Dependency(Top(t).project_id, Top(t).version_id, TRUE), ok)
              /\ Spent(ok)
              /\ IF full_version = {}
                 THEN Ret(t, "ok")
                 ELSE /\ \E v \in full_version :
                            Call(t, Top(t), "pl_done", InstallFrame(Top(t).platform, v),
                                 "inst_profile")
                      /\ guards' = guards
    /\ UNCHANGED <<profiles, diskVars, fsVars, nOps, nextUuid, registryVars>>

\* install_..._dependencies(...).await? and Ok(()): the end of both functions.
PayloadDone(t) ==
    /\ tk[t].pc = "pl_done"
    /\ Ret(t, tk[t].cres)
    /\ UNCHANGED <<profiles, diskVars, fsVars, nOps, nextUuid, envVars>>

\* let profile = self.get_profile(profile_id).await? at the head of both install
\* functions: it waits for a read guard.
InstallProfile(t) ==
    /\ tk[t].pc = "inst_profile"
    /\ CanRead(t)
    /\ IF tk[t].call.profile_id \in DOMAIN profiles
       THEN /\ Goto(t, IF Top(t).platform = "Modrinth" THEN "imd_dep" ELSE "icd_dep",
                    [Top(t) EXCEPT
                        !.loader = as_str(profiles[tk[t].call.profile_id].loader),
                        !.game_version = profiles[tk[t].call.profile_id].game_version])
            /\ guards' = guards
       ELSE Ret(t, "err_profile_not_found")
    /\ UNCHANGED <<profiles, diskVars, fsVars, nOps, nextUuid, envVars>>

\* One pass of the loop of install_modrinth_dependencies: for a required
\* dependency that names a project, the latest version for the profile's loader
\* and game version is added by add_mod_from_payload(&dep_payload, false).
InstallModrinthDep(t) ==
    /\ tk[t].pc = "imd_dep"
    /\ IF Top(t).deps = <<>>
       THEN /\ Ret(t, "ok")
            /\ UNCHANGED <<log, nFaults>>
       ELSE LET dependency == Head(Top(t).deps)
                rest == [Top(t) EXCEPT !.deps = NextDependencies(@)]
            IN  /\ guards' = guards
                /\ IF IsRequired(dependency) /\ dependency.project_id # None
                   THEN \E ok \in Outcomes :
                           LET best_version ==
                                   IF ok
                                   THEN max_by_key(get_mod_versions(
                                            "Modrinth", dependency.project_id,
                                            {Top(t).loader}, {Top(t).game_version}))
                                   ELSE {}
                           IN  /\ log' = Logged(t, "dep", dependency, ok)
                               /\ Spent(ok)
                               /\ IF \E v \in best_version : PrimaryFile(v) # {}
                                  THEN \E v \in best_version :
                                       \E primary_file \in PrimaryFile(v) :
                                          Call(t, rest, "imd_dep",
                                               PayloadFrame("Modrinth", v, primary_file, FALSE),
                                               "pl_lock")
                                  ELSE Goto(t, "imd_dep", rest)
                   ELSE /\ Goto(t, "imd_dep", rest)
                        /\ UNCHANGED <<log, nFaults>>
    /\ UNCHANGED <<profiles, diskVars, fsVars, nOps, nextUuid, registryVars>>

\* One pass of the loop of install_curseforge_dependencies: get_mod_info and
\* get_mod_files for the profile's game version; the latest file is added when it
\* lists the profile's loader (a vanilla profile takes any).
InstallCurseForgeDep(t) ==
    /\ tk[t].pc = "icd_dep"
    /\ IF Top(t).deps = <<>>
       THEN /\ Ret(t, "ok")
            /\ UNCHANGED <<log, nFaults>>
       ELSE LET dependency == Head(Top(t).deps)
                rest == [Top(t) EXCEPT !.deps = NextDependencies(@)]
            IN  /\ guards' = guards
                /\ IF IsRequired(dependency)
                   THEN \E info_ok \in Outcomes, files_ok \in Outcomes :
                           LET known == dependency.project_id \in DOMAIN catalog.CurseForge
                               best_file ==
                                   IF info_ok /\ known /\ files_ok
                                   THEN max_by_key(get_mod_versions(
                                            "CurseForge", dependency.project_id,
                                            {}, {Top(t).game_version}))
                                   ELSE {}
                               IsCompatible(f) == \/ Top(t).loader = "vanilla"
                                                  \/ Top(t).loader \in f.loaders
                           IN  /\ info_ok \/ files_ok
                               /\ log' = Logged(t, "dep", dependency, info_ok /\ files_ok)
                               /\ Spent(info_ok /\ files_ok)
                               /\ IF \E f \in best_file : IsCompatible(f) /\ f.files # <<>>
                                  THEN \E f \in best_file :
                                          Call(t, rest, "icd_dep",
                                               [PayloadFrame("CurseForge", f, f.files[1],
                                                             FALSE)
                                                   EXCEPT !.version_number =
                                                              f.files[1].filename],
                                               "pl_lock")
                                  ELSE Goto(t, "icd_dep", rest)
                   ELSE /\ Goto(t, "icd_dep", rest)
                        /\ UNCHANGED <<log, nFaults>>
    /\ UNCHANGED <<profiles, diskVars, fsVars, nOps, nextUuid, registryVars>>

\* ------------------------------------------------- the version-switch operations

\* A comparison that lets every project pass.
NeverMismatch(old_project_id, new_project_id) == FALSE

\* old_project_id != &new_version_details.project_id
ProjectMismatch(old_project_id, new_project_id) == old_project_id # new_project_id

\* existing_project_ids: the projects of the profile's mods of one platform.
existing_project_ids(mods, platform) ==
    {mods[i].source.project_id : i \in {j \in DOMAIN mods : mods[j].source.variant = platform}}

\* A switch that finds nothing missing.
NoMissingDeps(mods, platform, new_version_details) == <<>>

\* missing_deps: the required dependencies of the new version that name a
\* project none of the profile's mods is of.
missing_deps(mods, platform, new_version_details) ==
    LET IsMissing(d) == /\ IsRequired(d)
                        /\ d.project_id # None
                        /\ d.project_id \notin existing_project_ids(mods, platform)
    IN  SelectSeq(new_version_details.dependencies, IsMissing)

\* profile.mods.iter().position(|m| m.id == mod_id), in a set.
position(mods, mod_id) ==
    {i \in DOMAIN mods : mods[i].id = mod_id /\ \A j \in 1..(i - 1) : mods[j].id # mod_id}

\* The source and the version fields of the Mod switched to file new_file of
\* new_version_details.
Switched(m, platform, new_version_details, new_file) ==
    [m EXCEPT !.source = ModSource(platform, new_version_details.project_id,
                                   new_version_details.id, new_file.filename),
              !.version = new_version_details.version_number,
              !.game_versions = new_version_details.game_versions]

SwitchFrame(fn, platform, v) ==
    [Frame0 EXCEPT !.fn = fn, !.platform = platform, !.project_id = v.project_id,
                   !.version_id = v.id]

\* A switch of mod mod_id of the profile to version new_version_details.
StartSwitch(t, ids, fn, platform, entry) ==
    /\ Idle(t)
    /\ \E profile_id \in ids, new_version_details \in AllVersions(platform) :
       \E mod_id \in {profiles[profile_id].mods[i].id : i \in DOMAIN profiles[profile_id].mods}
                     \cup {nextUuid} :
          BeginCall(t, [name |-> fn, profile_id |-> profile_id, mod_id |-> mod_id,
                        new_version_details |-> new_version_details,
                        before |-> profiles[profile_id].mods],
                    SwitchFrame(fn, platform, new_version_details), entry)
    /\ UNCHANGED <<profiles, diskVars, fsVars, guards, nextUuid>>

\* Everything a switch does under its write guard: the missing dependencies, the
\* search for the mod, the checks of its platform, of its project and of the new
\* file (files: the file to switch to, in a set), the change of the record;
\* then drop(profiles) and save_profiles.
SwitchApply(t, pc0, platform, files, saved) ==
    /\ tk[t].pc = pc0
    /\ LET profile_id == tk[t].call.profile_id
           v == tk[t].call.new_version_details
       IN  IF profile_id \notin DOMAIN profiles
           THEN Ret(t, "err_profile_not_found") /\ profiles' = profiles
           ELSE LET mods == profiles[profile_id].mods
                    index == position(mods, tk[t].call.mod_id)
                IN  IF index = {}
                    THEN Ret(t, "err_mod_not_found") /\ profiles' = profiles
                    ELSE \E i \in index :
                         IF mods[i].source.variant # platform
                         THEN Ret(t, "err_other_platform") /\ profiles' = profiles
                         ELSE IF ProjectMismatch(mods[i].source.project_id, v.project_id)
                         THEN Ret(t, "err_project_mismatch") /\ profiles' = profiles
                         ELSE IF files = {}
                         THEN Ret(t, "err_primary_file_not_found") /\ profiles' = profiles
                         ELSE \E new_file \in files :
                              /\ profiles' = [profiles EXCEPT ![profile_id].mods[i] =
                                                 Switched(@, platform, v, new_file)]
                              /\ guards' = [guards EXCEPT ![t] = Dropped(t)]
                              /\ SaveFrom(t, [Top(t) EXCEPT
                                                 !.holds = FALSE,
                                                 !.deps = missing_deps(mods, platform, v)],
                                          saved)
    /\ UNCHANGED <<diskVars, fsVars, nOps, nextUuid, envVars>>

\* update_profile_modrinth_mod_version(profile_id, mod_id, new_version_details)
StartSwitchModrinth(t, ids) ==
    StartSwitch(t, ids, "update_profile_modrinth_mod_version", "Modrinth", "swm_lock")

SwitchModrinthLock(t) == AcquireWrite(t, "swm_lock", "swm_apply")

SwitchModrinthApply(t) ==
    SwitchApply(t, "swm_apply", "Modrinth", PrimaryFile(tk[t].call.new_version_details),
                "swm_saved")

\* self.save_profiles().await?
SwitchModrinthSaved(t) ==
    /\ tk[t].pc = "swm_saved"
    /\ IF tk[t].sres = "ok"
       THEN /\ Goto(t, "swm_dep", Top(t))
            /\ guards' = guards
       ELSE Ret(t, tk[t].sres)
    /\ UNCHANGED <<profiles, diskVars, fsVars, nOps, nextUuid, envVars>>

\* One pass of `for (dep_project_id, dep_version_id_opt) in missing_deps`:
\* get_profile, then the version named when its details answer with a primary
\* file, else the latest version for the profile's loader and game version; the
\* one found is added by add_modrinth_mod(..., false).
SwitchModrinthDep(t) ==
    /\ tk[t].pc = "swm_dep"
    /\ IF Top(t).deps = <<>>
       THEN /\ Ret(t, "ok")
            /\ UNCHANGED <<log, nFaults>>
       ELSE /\ CanRead(t)
            /\ IF tk[t].call.profile_id \notin DOMAIN profiles
               THEN /\ Ret(t, "err_profile_not_found")
                    /\ UNCHANGED <<log, nFaults>>
               ELSE LET profile == profiles[tk[t].call.profile_id]
                        dependency == Head(Top(t).deps)
                        rest == [Top(t) EXCEPT !.deps = NextDependencies(@)]
                        Add(v, primary_file) ==
                            Call(t, rest, "swm_dep", ModrinthFrame(v, primary_file, FALSE, {}),
                                 "mr_enter")
                        HasPrimary(vs) == {v \in vs : PrimaryFile(v) # {}}
                    IN  /\ guards' = guards
                        /\ \E details_ok \in Outcomes, versions_ok \in Outcomes :
                              LET named == dependency.version_id # None
                                  dep_version ==
                                      IF named /\ details_ok
                                      THEN HasPrimary(get_version_details(
                                               "Modrinth", dependency.version_id))
                                      ELSE {}
                                  best_version ==
                                      IF versions_ok
                                      THEN HasPrimary(max_by_key(get_mod_versions(
                                               "Modrinth", dependency.project_id,
                                               {as_str(profile.loader)},
                                               {profile.game_version})))
                                      ELSE {}
                              IN  /\ named \/ details_ok
                                  /\ dep_version = {} \/ versions_ok
                                  /\ Failed((IF details_ok THEN 0 ELSE 1)
                                            + (IF versions_ok THEN 0 ELSE 1))
                                  /\ log' = Logged(t, "dep", dependency,
                                                   IF dep_version # {} THEN TRUE
                                                   ELSE versions_ok)
                                  /\ IF dep_version # {}
                                     THEN \E v \in dep_version :
                                          \E primary_file \in PrimaryFile(v) :
                                             Add(v, primary_file)
                                     ELSE IF best_version # {}
                                     THEN \E v \in best_version :
                                          \E primary_file \in PrimaryFile(v) :
                                             Add(v, primary_file)
                                     ELSE Goto(t, "swm_dep", rest)
    /\ UNCHANGED <<profiles, diskVars, fsVars, nOps, nextUuid, registryVars>>

\* update_profile_curseforge_mod_version(profile_id, mod_id, new_version_details)
StartSwitchCurseForge(t, ids) ==
    StartSwitch(t, ids, "update_profile_curseforge_mod_version", "CurseForge", "swc_lock")

SwitchCurseForgeLock(t) == AcquireWrite(t, "swc_lock", "swc_apply")

\* A CurseForgeFile is one file: fileName, downloadUrl, hashes.
CurseForgeFile(v) == {v.files[1]}

SwitchCurseForgeApply(t) ==
    SwitchApply(t, "swc_apply", "CurseForge", CurseForgeFile(tk[t].call.new_version_details),
                "swc_saved")

\* self.save_profiles().await?, and install_curseforge_dependencies for the whole
\* new file when a required dependency is missing.
SwitchCurseForgeSaved(t) ==
    /\ tk[t].pc = "swc_saved"
    /\ IF tk[t].sres # "ok"
       THEN Ret(t, tk[t].sres)
       ELSE IF Top(t).deps = <<>>
       THEN Ret(t, "ok")
       ELSE /\ Call(t, Top(t), "swc_done",
                    InstallFrame("CurseForge", tk[t].call.new_version_details),
                    "inst_profile")
            /\ guards' = guards
    /\ UNCHANGED <<profiles, diskVars, fsVars, nOps, nextUuid, envVars>>

\* The value of install_curseforge_dependencies is logged, and Ok(()) returned.
SwitchCurseForgeDone(t) ==
    /\ tk[t].pc = "swc_done"
    /\ Ret(t, "ok")
    /\ UNCHANGED <<profiles, diskVars, fsVars, nOps, nextUuid, envVars>>

\* ------------------------ update_mod_with_switch_content_version_payload

\* current_item_details of a SwitchContentVersionPayload: the id (none or one)
\* and the project ids of modrinth_info and curseforge_info, when given.
Item(id, modrinth_info, curseforge_info) ==
    [id |-> id, modrinth_info |-> modrinth_info, curseforge_info |-> curseforge_info]

\* What a front end may send for current_item_details (none or one): the id of
\* a mod of the list or of no mod, or the project of one of the mods.
CurrentItems(mods) ==
    LET Of(platform) == {mods[i].source.project_id :
                            i \in {j \in DOMAIN mods : mods[j].source.variant = platform}}
    IN  {{}} \cup {{Item({id}, None, None)} : id \in {mods[i].id : i \in DOMAIN mods}
                                                      \cup {nextUuid}}
             \cup {{Item({}, project_id, None)} : project_id \in Of("Modrinth")}
             \cup {{Item({}, None, project_id)} : project_id \in Of("CurseForge")}

\* The closure of position() at 2885-2899: the mod's id is the item's, or the
\* mod's project is the one the item names for the mod's platform.
IsCurrentItem(m, current_item) ==
    CASE m.source.variant = "Modrinth" ->
            m.id \in current_item.id \/ current_item.modrinth_info = m.source.project_id
      [] m.source.variant = "CurseForge" ->
            m.id \in current_item.id \/ current_item.curseforge_info = m.source.project_id
      [] OTHER -> FALSE

\* update_mod_with_switch_content_version_payload(profile_id, payload)
StartSwitchPayload(t, ids) ==
    /\ Idle(t)
    /\ \E profile_id \in ids, platform \in {"Modrinth", "CurseForge"} :
       \E new_version_details \in AllVersions(platform),
          current_item_details \in CurrentItems(profiles[profile_id].mods) :
          BeginCall(t, [name |-> "update_mod_with_switch_content_version_payload",
                        profile_id |-> profile_id,
                        current_item_details |-> current_item_details,
                        platform |-> platform,
                        new_version_details |-> new_version_details,
                        before |-> profiles[profile_id].mods],
                    SwitchFrame("update_mod_with_switch_content_version_payload",
                                platform, new_version_details),
                    "swp_lock")
    /\ UNCHANGED <<profiles, diskVars, fsVars, guards, nextUuid>>

SwitchPayloadLock(t) == AcquireWrite(t, "swp_lock", "swp_apply")

\* Everything the function does under its write guard: the profile, the item,
\* the search for the mod, the file to switch to (the primary one, else the
\* first), the change of the record; then drop(profiles) and save_profiles.
SwitchPayloadApply(t) ==
    /\ tk[t].pc = "swp_apply"
    /\ LET profile_id == tk[t].call.profile_id
           v == tk[t].call.new_version_details
       IN  IF profile_id \notin DOMAIN profiles
           THEN Ret(t, "err_profile_not_found") /\ profiles' = profiles
           ELSE IF tk[t].call.current_item_details = {}
           THEN Ret(t, "err_invalid_input") /\ profiles' = profiles
           ELSE \E current_item \in tk[t].call.current_item_details :
                LET mods == profiles[profile_id].mods
                    mod_to_update_index ==
                        Find([i \in DOMAIN mods |-> i],
                             [i \in DOMAIN mods |-> IsCurrentItem(mods[i], current_item)])
                IN  IF mod_to_update_index = {}
                    THEN Ret(t, "err_mod_not_found") /\ profiles' = profiles
                    ELSE IF PrimaryOrFirstFile(v) = {}
                    THEN Ret(t, "err_invalid_input") /\ profiles' = profiles
                    ELSE \E index \in mod_to_update_index :
                         \E primary_file \in PrimaryOrFirstFile(v) :
                            /\ profiles' = [profiles EXCEPT ![profile_id].mods[index] =
                                               Switched(@, tk[t].call.platform, v,
                                                        primary_file)]
                            /\ guards' = [guards EXCEPT ![t] = Dropped(t)]
                            /\ SaveFrom(t, [Top(t) EXCEPT !.holds = FALSE,
                                                          !.deps = v.dependencies],
                                        "swp_saved")
    /\ UNCHANGED <<diskVars, fsVars, nOps, nextUuid, envVars>>

\* self.save_profiles().await?, and install_missing_dependencies when the new
\* version has dependencies.
SwitchPayloadSaved(t) ==
    /\ tk[t].pc = "swp_saved"
    /\ IF tk[t].sres # "ok"
       THEN Ret(t, tk[t].sres)
       ELSE IF Top(t).deps = <<>>
       THEN Ret(t, "ok")
       ELSE /\ Call(t, Top(t), "swp_done",
                    [Frame0 EXCEPT !.fn = "install_missing_dependencies",
                                   !.platform = tk[t].call.platform,
                                   !.project_id = Top(t).project_id,
                                   !.version_id = Top(t).version_id,
                                   !.deps = Top(t).deps],
                    "imiss_profile")
            /\ guards' = guards
    /\ UNCHANGED <<profiles, diskVars, fsVars, nOps, nextUuid, envVars>>

\* The value of install_missing_dependencies is logged, and Ok(()) returned.
SwitchPayloadDone(t) ==
    /\ tk[t].pc = "swp_done"
    /\ Ret(t, "ok")
    /\ UNCHANGED <<profiles, diskVars, fsVars, nOps, nextUuid, envVars>>

\* is_dependency_installed(profile, dependency_project_id): an enabled mod of
\* the project, of either registry.
is_dependency_installed(mods, dependency_project_id) ==
    \E i \in DOMAIN mods :
       /\ mods[i].source.variant \in {"Modrinth", "CurseForge"}
       /\ mods[i].source.project_id = dependency_project_id
       /\ mods[i].enabled

\* format!("{}.jar", dep_project_id), for the projects of the registries.
jar_of(dep_project_id) ==
    CASE dep_project_id = "A" -> "A.jar"
      [] dep_project_id = "B" -> "B.jar"
      [] dep_project_id = "C" -> "C.jar"
      [] dep_project_id = "D" -> "D.jar"
      [] dep_project_id = "1" -> "1.jar"
      [] dep_project_id = "2" -> "2.jar"
      [] dep_project_id = "3" -> "3.jar"
      [] dep_project_id = "4" -> "4.jar"

\* let profile = self.get_profile(profile_id).await? at the head of
\* install_missing_dependencies: the profile is read once, for the whole loop.
InstallMissingProfile(t) ==
    /\ tk[t].pc = "imiss_profile"
    /\ CanRead(t)
    /\ IF tk[t].call.profile_id \in DOMAIN profiles
       THEN /\ Goto(t, "imiss_dep",
                    [Top(t) EXCEPT
                        !.loader = as_str(profiles[tk[t].call.profile_id].loader),
                        !.game_version = profiles[tk[t].call.profile_id].game_version,
                        !.mods = profiles[tk[t].call.profile_id].mods])
            /\ guards' = guards
       ELSE Ret(t, "err_profile_not_found")
    /\ UNCHANGED <<profiles, diskVars, fsVars, nOps, nextUuid, envVars>>

\* One pass of the loop of install_missing_dependencies: for a required
\* dependency that names a project not installed in the profile read, the first
\* version for the profile's loader and game version is added, with its first
\* file, by add_mod_from_payload(&dep_payload, false).
InstallMissingDep(t) ==
    /\ tk[t].pc = "imiss_dep"
    /\ IF Top(t).deps = <<>>
       THEN /\ Ret(t, "ok")
            /\ UNCHANGED <<log, nFaults>>
       ELSE LET dependency == Head(Top(t).deps)
                rest == [Top(t) EXCEPT !.deps = NextDependencies(@)]
                FirstFile(v) == IF v.files # <<>> THEN v.files[1]
                                ELSE File(jar_of(dependency.project_id), FALSE)
            IN  /\ guards' = guards
                /\ IF /\ IsRequired(dependency)
                      /\ dependency.project_id # None
                      /\ ~is_dependency_installed(Top(t).mods, dependency.project_id)
                   THEN \E ok \in Outcomes :
                           LET versions ==
                                   IF ok
                                   THEN get_mod_versions_unified(
                                            Top(t).platform, dependency.project_id,
                                            {Top(t).loader}, {Top(t).game_version}, 1)
                                   ELSE <<>>
                           IN  /\ log' = Logged(t, "dep", dependency, ok)
                               /\ Spent(ok)
                               /\ IF versions # <<>>
                                  THEN Call(t, rest, "imiss_dep",
                                            PayloadFrame(Top(t).platform, versions[1],
                                                         FirstFile(versions[1]), FALSE),
                                            "pl_lock")
                                  ELSE Goto(t, "imiss_dep", rest)
                   ELSE /\ Goto(t, "imiss_dep", rest)
                        /\ UNCHANGED <<log, nFaults>>
    /\ UNCHANGED <<profiles, diskVars, fsVars, nOps, nextUuid, registryVars>>

\* ------------------------------------------- the specification of the mod lists

\* ------------- set_mod_enabled, set_mod_updates_enabled, set_GEG_mod_status

\* A comparison that takes every value for a new one.
AlwaysDiffers(stored, value) == TRUE

\* if mod_to_update.enabled != enabled
FlagDiffers(stored, value) == stored # value

\* The stored flag is set to the value asked for, under the write guard; only a
\* flag that changed is followed by drop(profiles) and save_profiles.
SetModFlag(t, pc0, field, saved) ==
    /\ tk[t].pc = pc0
    /\ LET profile_id == tk[t].call.profile_id
       IN  IF profile_id \notin DOMAIN profiles
           THEN Ret(t, "err_profile_not_found") /\ profiles' = profiles
           ELSE LET mods == profiles[profile_id].mods
                    index == position(mods, tk[t].call.mod_id)
                IN  IF index = {}
                    THEN Ret(t, "err_mod_not_found") /\ profiles' = profiles
                    ELSE \E i \in index :
                         IF FlagDiffers(mods[i][field], tk[t].call.value)
                         THEN /\ profiles' = [profiles EXCEPT
                                                 ![profile_id].mods[i][field] = tk[t].call.value]
                              /\ guards' = [guards EXCEPT ![t] = Dropped(t)]
                              /\ SaveFrom(t, [Top(t) EXCEPT !.holds = FALSE], saved)
                         ELSE Ret(t, "ok") /\ profiles' = profiles
    /\ UNCHANGED <<diskVars, fsVars, nOps, nextUuid, envVars>>

\* A call that sets a flag of mod mod_id of the profile to value.
StartSetModFlag(t, ids, fn, entry) ==
    /\ Idle(t)
    /\ \E profile_id \in ids, value \in BOOLEAN :
       \E mod_id \in {profiles[profile_id].mods[i].id : i \in DOMAIN profiles[profile_id].mods}
                     \cup {nextUuid} :
          BeginCall(t, [name |-> fn, profile_id |-> profile_id, mod_id |-> mod_id,
                        value |-> value, before |-> profiles[profile_id]],
                    [Frame0 EXCEPT !.fn = fn], entry)
    /\ UNCHANGED <<profiles, diskVars, fsVars, guards, nextUuid>>

\* set_mod_enabled(profile_id, mod_id, enabled)
StartSetModEnabled(t, ids) == StartSetModFlag(t, ids, "set_mod_enabled", "sme_lock")

SetModEnabledLock(t) == AcquireWrite(t, "sme_lock", "sme_apply")

SetModEnabledApply(t) == SetModFlag(t, "sme_apply", "enabled", "sme_saved")

SetModEnabledSaved(t) == ReturnSaved(t, "sme_saved")

\* set_mod_updates_enabled(profile_id, mod_id, updates_enabled)
StartSetModUpdatesEnabled(t, ids) ==
    StartSetModFlag(t, ids, "set_mod_updates_enabled", "smu_lock")

SetModUpdatesEnabledLock(t) == AcquireWrite(t, "smu_lock", "smu_apply")

SetModUpdatesEnabledApply(t) ==
    SetModFlag(t, "smu_apply", "updates_enabled", "smu_saved")

SetModUpdatesEnabledSaved(t) == ReturnSaved(t, "smu_saved")

\* The pack mods the calls of set_GEG_mod_status are about.
PackMods == {GEGModIdentifier("pack", "m1", "1.20.1", "Fabric")}

\* set_GEG_mod_status(profile_id, pack_id, mod_id, game_version, loader, disabled)
StartSetGEGModStatus(t, ids) ==
    /\ Idle(t)
    /\ \E profile_id \in ids, identifier \in PackMods, disabled \in BOOLEAN :
          BeginCall(t, [name |-> "set_GEG_mod_status", profile_id |-> profile_id,
                        identifier |-> identifier, disabled |-> disabled,
                        before |-> profiles[profile_id]],
                    [Frame0 EXCEPT !.fn = "set_GEG_mod_status"], "sgs_lock")
    /\ UNCHANGED <<profiles, diskVars, fsVars, guards, nextUuid>>

SetGEGModStatusLock(t) == AcquireWrite(t, "sgs_lock", "sgs_apply")

\* HashSet::insert and HashSet::remove tell whether the set changed.
SetGEGModStatusApply(t) ==
    /\ tk[t].pc = "sgs_apply"
    /\ LET profile_id == tk[t].call.profile_id
           identifier == tk[t].call.identifier
       IN  IF profile_id \notin DOMAIN profiles
           THEN Ret(t, "err_profile_not_found") /\ profiles' = profiles
           ELSE LET set == profiles[profile_id].disabled_GEG_mods_detailed
                    changed == IF tk[t].call.disabled THEN identifier \notin set
                               ELSE identifier \in set
                IN  IF changed
                    THEN /\ profiles' = [profiles EXCEPT
                                            ![profile_id].disabled_GEG_mods_detailed =
                                               IF tk[t].call.disabled
                                               THEN @ \cup {identifier}
                                               ELSE @ \ {identifier}]
                         /\ guards' = [guards EXCEPT ![t] = Dropped(t)]
                         /\ SaveFrom(t, [Top(t) EXCEPT !.holds = FALSE], "sgs_saved")
                    ELSE Ret(t, "ok") /\ profiles' = profiles
    /\ UNCHANGED <<diskVars, fsVars, nOps, nextUuid, envVars>>

SetGEGModStatusSaved(t) == ReturnSaved(t, "sgs_saved")

\* The Mod that an add of file number n of version v leaves on the list.
ModOf(id, platform, v, n) ==
    Mod(id, ModSource(platform, v.project_id, v.id, v.files[n].filename),
        v.version_number, v.game_versions)

\* The mod lists the behaviours start from: none, or version a1 of A, which an
\* earlier add has left.
InitialMods(cat) ==
    {<<>>} \cup {<<ModOf(0, "Modrinth", cat.Modrinth["A"][i], 1)>> :
                   i \in {j \in DOMAIN cat.Modrinth["A"] : cat.Modrinth["A"][j].id = "a1"}}

\* What a caller of update_profile may pass for the profile: the profile with its
\* list emptied, or with its first mod once more under a new id.
UpdatedProfiles ==
    {[profiles[k] EXCEPT !.mods = <<>>] : k \in DOMAIN profiles}
    \cup {[profiles[k] EXCEPT !.mods = Append(@, [@[1] EXCEPT !.id = nextUuid])] :
             k \in {j \in DOMAIN profiles : profiles[j].mods # <<>>}}

\* A manager with one profile loaded, in front of one of the registries; the
\* tasks of running run operations.
InitManager(running) ==
    /\ catalog \in Catalogs
    /\ \E mods \in InitialMods(catalog) :
          /\ profiles = [k \in {"p1"} |->
                            Profile("p1", <<"a">>, NoGroup, FALSE, "1.20.1", "Fabric", mods)]
          /\ nextUuid = Len(mods)
    /\ file = ValidFile(SerializeProfiles(profiles))
    /\ backups = <<>>
    /\ corrupted = {}
    /\ dirs = WithAncestors(calculate_instance_path_for_profile(profiles["p1"]))
    /\ trash = {}
    /\ InitTasks
    /\ nOps = 1
    /\ active = running
    /\ log = {}
    /\ nFaults = 0

InitMods == InitManager({"t1"})

NextMods ==
    \E t \in Tasks :
       \/ StartAddMod(t, {"p1"}, {LocalSource("x.jar")})
       \/ AddModLock(t)
       \/ AddModCheck(t)
       \/ AddModPush(t)
       \/ AddModSaved(t)
       \/ StartDeleteMod(t, {"p1"})
       \/ DeleteModLock(t)
       \/ DeleteModRetain(t)
       \/ DeleteModSaved(t)
       \/ StartAddModrinthMod(t, {"p1"}, AllVersions("Modrinth"), BOOLEAN)
       \/ ModrinthEnter(t)
       \/ ModrinthLock(t)
       \/ ModrinthCheck(t)
       \/ ModrinthPush(t)
       \/ ModrinthSaved(t)
       \/ ModrinthDeps(t)
       \/ ModrinthFetch(t)
       \/ ModrinthDep(t)
       \/ StartAddModFromPayload(t, {"p1"}, {"Modrinth", "CurseForge"}, BOOLEAN)
       \/ PayloadLock(t)
       \/ PayloadCheck(t)
       \/ PayloadPush(t)
       \/ PayloadSaved(t)
       \/ PayloadDeps(t)
       \/ PayloadDetails(t)
       \/ PayloadDone(t)
       \/ InstallProfile(t)
       \/ InstallModrinthDep(t)
       \/ InstallCurseForgeDep(t)
       \/ StartSwitchModrinth(t, {"p1"})
       \/ SwitchModrinthLock(t)
       \/ SwitchModrinthApply(t)
       \/ SwitchModrinthSaved(t)
       \/ SwitchModrinthDep(t)
       \/ StartSwitchCurseForge(t, {"p1"})
       \/ SwitchCurseForgeLock(t)
       \/ SwitchCurseForgeApply(t)
       \/ SwitchCurseForgeSaved(t)
       \/ SwitchCurseForgeDone(t)
       \/ StartUpdateProfile(t, {"p1"}, UpdatedProfiles)
       \/ UpdateInsert(t)
       \/ StartSetModEnabled(t, {"p1"})
       \/ SetModEnabledLock(t)
       \/ SetModEnabledApply(t)
       \/ SetModEnabledSaved(t)
       \/ StartSetModUpdatesEnabled(t, {"p1"})
       \/ SetModUpdatesEnabledLock(t)
       \/ SetModUpdatesEnabledApply(t)
       \/ SetModUpdatesEnabledSaved(t)
       \/ StartSetGEGModStatus(t, {"p1"})
       \/ SetGEGModStatusLock(t)
       \/ SetGEGModStatusApply(t)
       \/ SetGEGModStatusSaved(t)
       \/ SaveLock(t)
       \/ SaveSnapshot(t)
       \/ SaveWrite(t)
       \/ SaveDone(t)

SpecMods == InitMods /\ [][NextMods]_vars

\* ------------------------------------------ the adds alone, with their progress

\* The steps of add_modrinth_mod and add_mod_from_payload, with the dependency
\* recursion and the saves.
NextAdd ==
    \E t \in Tasks :
       \/ StartAddModrinthMod(t, {"p1"}, AllVersions("Modrinth"), BOOLEAN)
       \/ ModrinthEnter(t)
       \/ ModrinthLock(t)
       \/ ModrinthCheck(t)
       \/ ModrinthPush(t)
       \/ ModrinthSaved(t)
       \/ ModrinthDeps(t)
       \/ ModrinthFetch(t)
       \/ ModrinthDep(t)
       \/ StartAddModFromPayload(t, {"p1"}, {"Modrinth", "CurseForge"}, BOOLEAN)
       \/ PayloadLock(t)
       \/ PayloadCheck(t)
       \/ PayloadPush(t)
       \/ PayloadSaved(t)
       \/ PayloadDeps(t)
       \/ PayloadDetails(t)
       \/ PayloadDone(t)
       \/ InstallProfile(t)
       \/ InstallModrinthDep(t)
       \/ InstallCurseForgeDep(t)
       \/ SaveLock(t)
       \/ SaveSnapshot(t)
       \/ SaveWrite(t)
       \/ SaveDone(t)

\* The runtime polls a task that can go on: a step that stays possible is taken.
SpecAdd == InitMods /\ [][NextAdd]_vars /\ WF_vars(NextAdd)

\* ----------------------------------------------------- two tasks that add mods

InitConc == InitManager(Tasks)

\* The sources the concurrent adds are about: the files of project A.
ConcVersions == {v \in AllVersions("Modrinth") : v.project_id = "A"}

ConcSources ==
    {ModSource("Modrinth", v.project_id, v.id, v.files[1].filename) : v \in ConcVersions}

\* The three add operations, without dependency recursion, run by both tasks.
NextConc ==
    \E t \in Tasks :
       \/ StartAddMod(t, {"p1"}, ConcSources)
       \/ AddModLock(t)
       \/ AddModCheck(t)
       \/ AddModPush(t)
       \/ AddModSaved(t)
       \/ StartAddModrinthMod(t, {"p1"}, ConcVersions, {FALSE})
       \/ ModrinthEnter(t)
       \/ ModrinthLock(t)
       \/ ModrinthCheck(t)
       \/ ModrinthPush(t)
       \/ ModrinthSaved(t)
       \/ ModrinthDeps(t)
       \/ StartAddModFromPayload(t, {"p1"}, {"Modrinth"}, {FALSE})
       \/ PayloadLock(t)
       \/ PayloadCheck(t)
       \/ PayloadPush(t)
       \/ PayloadSaved(t)
       \/ PayloadDeps(t)
       \/ SaveLock(t)
       \/ SaveSnapshot(t)
       \/ SaveWrite(t)
       \/ SaveDone(t)

SpecConc == InitConc /\ [][NextConc]_vars

\* Mutating operations of several kinds, run by both tasks, each with its save.
NextSave ==
    \E t \in Tasks :
       \/ StartAddMod(t, {"p1"}, ConcSources)
       \/ AddModLock(t)
       \/ AddModCheck(t)
       \/ AddModPush(t)
       \/ AddModSaved(t)
       \/ StartDeleteMod(t, {"p1"})
       \/ DeleteModLock(t)
       \/ DeleteModRetain(t)
       \/ DeleteModSaved(t)
       \/ StartSetModEnabled(t, {"p1"})
       \/ SetModEnabledLock(t)
       \/ SetModEnabledApply(t)
       \/ SetModEnabledSaved(t)
       \/ StartSetGEGModStatus(t, {"p1"})
       \/ SetGEGModStatusLock(t)
       \/ SetGEGModStatusApply(t)
       \/ SetGEGModStatusSaved(t)
       \/ StartUpdateProfile(t, {"p1"}, UpdatedProfiles)
       \/ UpdateInsert(t)
       \/ SaveLock(t)
       \/ SaveSnapshot(t)
       \/ SaveWrite(t)
       \/ SaveDone(t)

SpecSave == InitConc /\ [][NextSave]_vars

\* ------------------------------------- the registry under concurrent calls

\* What the concurrent callers pass to create_profile and update_profile: a
\* second profile, at the path of the first or at a path of its own.
RaceInputs ==
    {Profile("p2", <<"a">>, NoGroup, FALSE, "1.20.1", "Fabric", <<>>),
     Profile("p2", <<"b">>, NoGroup, FALSE, "1.20.1", "Fabric", <<>>)}

\* A manager with profile p1 loaded (a profile of its own, or one of a group
\* with a shared folder) and its directory on disk; two tasks run two operations
\* between them.
InitRace ==
    /\ profiles \in {[k \in {"p1"} |-> first] :
                        first \in {Profile("p1", <<"a">>, NoGroup, FALSE, "1.20.1",
                                           "Fabric", <<>>),
                                   Profile("p1", <<"groups">>, <<"X">>, TRUE, "1.20.1",
                                           "Fabric", <<>>)}}
    /\ file = ValidFile(SerializeProfiles(profiles))
    /\ backups = <<>>
    /\ corrupted = {}
    /\ dirs = WithAncestors(calculate_instance_path_for_profile(profiles["p1"]))
    /\ trash = {}
    /\ InitTasks
    /\ nOps = MaxOps - 2
    /\ nextUuid = 0
    /\ catalog = <<>>
    /\ active = Tasks
    /\ log = {}
    /\ nFaults = 0

NextRace ==
    \E t \in Tasks :
       \/ StartCreateProfile(t, RaceInputs)
       \/ CreateDir(t)
       \/ CreateInsert(t)
       \/ StartUpdateProfile(t, {"p2"}, RaceInputs)
       \/ UpdateInsert(t)
       \/ StartDeleteProfile(t, {"p1"})
       \/ DeleteLookup(t)
       \/ DeleteCheckMain(t)
       \/ DeleteTrashMain(t)
       \/ DeleteCheckIndividual(t)
       \/ DeleteTrashIndividual(t)
       \/ DeleteRemove(t)
       \/ SaveLock(t)
       \/ SaveSnapshot(t)
       \/ SaveWrite(t)
       \/ SaveDone(t)

SpecRace == InitRace /\ [][NextRace]_vars

\* ------------------------------------------ the registry before it is loaded

\* The profile an earlier run left in profiles.json.
Persisted == Profile("p1", <<"a">>, NoGroup, FALSE, "1.20.1", "Fabric", <<>>)

\* ProfileManager::new: the map starts empty and nothing is read; profiles.json
\* holds what an earlier run left, with or without a backup of it. Two tasks run
\* two operations between them.
InitEnsure ==
    /\ profiles = EmptyMap
    /\ file = ValidFile({ProfileToJson(Persisted)})
    /\ backups \in {<<>>, <<ValidFile({ProfileToJson(Persisted)})>>}
    /\ corrupted = {}
    /\ dirs = WithAncestors(calculate_instance_path_for_profile(Persisted))
    /\ trash = {}
    /\ InitTasks
    /\ nOps = MaxOps - 2
    /\ nextUuid = 0
    /\ catalog = <<>>
    /\ active = Tasks
    /\ log = {}
    /\ nFaults = 0

NextEnsure ==
    \E t \in Tasks :
       \/ StartEnsureProfilesLoaded(t)
       \/ EnsureCheck(t)
       \/ LoadAttempt(t)
       \/ EnsureInstall(t)
       \/ StartCreateProfile(t, RaceInputs)
       \/ CreateDir(t)
       \/ CreateInsert(t)
       \/ StartUpdateProfile(t, {"p2"}, RaceInputs)
       \/ UpdateInsert(t)
       \/ SaveLock(t)
       \/ SaveSnapshot(t)
       \/ SaveWrite(t)
       \/ SaveDone(t)

SpecEnsure == InitEnsure /\ [][NextEnsure]_vars

\* ------------------------------- the specification of the version switches

\* Modrinth: A 2.0 requires B and names an optional D; both versions of B require
\* C. CurseForge: file 12 of mod 1 requires mods 2 and 3 and names an optional 4;
\* mod 2 has two files. The newest version comes first.
SwitchCatalog ==
    [Modrinth |->
        [p \in {"A", "B", "C", "D"} |->
            CASE p = "A" ->
                   <<Version("a2", "A", "2.0",
                             <<Dependency("D", None, FALSE), Dependency("B", None, TRUE)>>,
                             <<File("a2.jar", TRUE)>>, {"1.20.1"}, {"fabric"}, 2),
                     Version("a1", "A", "1.0", <<>>,
                             <<File("a1.jar", TRUE)>>, {"1.20.1"}, {"fabric"}, 1)>>
              [] p = "B" ->
                   <<Version("b2", "B", "2.0", <<Dependency("C", None, TRUE)>>,
                             <<File("b2.jar", TRUE)>>, {"1.20.1"}, {"fabric"}, 2),
                     Version("b1", "B", "1.0", <<Dependency("C", None, TRUE)>>,
                             <<File("b1.jar", TRUE)>>, {"1.20.1"}, {"fabric"}, 1)>>
              [] p = "C" ->
                   <<Version("c1", "C", "1.0", <<>>,
                             <<File("c1.jar", TRUE)>>, {"1.20.1"}, {"fabric"}, 1)>>
              [] p = "D" ->
                   <<Version("d1", "D", "1.0", <<>>,
                             <<File("d1.jar", TRUE)>>, {"1.20.1"}, {"fabric"}, 1)>>],
     CurseForge |->
        [p \in {"1", "2", "3", "4"} |->
            CASE p = "1" ->
                   <<Version("12", "1", "one-2",
                             <<Dependency("4", None, FALSE), Dependency("2", None, TRUE),
                               Dependency("3", None, TRUE)>>,
                             <<File("one-2.jar", TRUE)>>, {"1.20.1"}, {"fabric"}, 2),
                     Version("11", "1", "one-1", <<>>,
                             <<File("one-1.jar", TRUE)>>, {"1.20.1"}, {"fabric"}, 1)>>
              [] p = "2" ->
                   <<Version("22", "2", "two-2", <<>>,
                             <<File("two-2.jar", TRUE)>>, {"1.20.1"}, {"fabric"}, 2),
                     Version("21", "2", "two-1", <<>>,
                             <<File("two-1.jar", TRUE)>>, {"1.20.1"}, {"fabric"}, 1)>>
              [] p = "3" ->
                   <<Version("31", "3", "three-1", <<>>,
                             <<File("three-1.jar", TRUE)>>, {"1.20.1"}, {"fabric"}, 1)>>
              [] p = "4" ->
                   <<Version("41", "4", "four-1", <<>>,
                             <<File("four-1.jar", TRUE)>>, {"1.20.1"}, {"fabric"}, 1)>>]]

\* The mod lists the switches start from: the first versions of A and of mod 1,
\* alone or with the first versions of B (enabled or disabled) and of mod 2.
SwitchInitialMods ==
    LET a1 == ModOf(0, "Modrinth", SwitchCatalog.Modrinth["A"][2], 1)
        one == ModOf(1, "CurseForge", SwitchCatalog.CurseForge["1"][2], 1)
        b1 == ModOf(2, "Modrinth", SwitchCatalog.Modrinth["B"][2], 1)
        two == ModOf(3, "CurseForge", SwitchCatalog.CurseForge["2"][2], 1)
    IN  {<<a1, one>>, <<a1, one, b1, two>>,
         <<a1, one, [b1 EXCEPT !.enabled = FALSE], two>>}

\* A manager with one profile loaded, in front of the registry of the switches;
\* one task runs one operation.
InitSwitch ==
    /\ catalog = SwitchCatalog
    /\ \E mods \in SwitchInitialMods :
          /\ profiles = [k \in {"p1"} |->
                            Profile("p1", <<"a">>, NoGroup, FALSE, "1.20.1", "Fabric", mods)]
          /\ nextUuid = Len(mods)
    /\ file = ValidFile(SerializeProfiles(profiles))
    /\ backups = <<>>
    /\ corrupted = {}
    /\ dirs = WithAncestors(calculate_instance_path_for_profile(profiles["p1"]))
    /\ trash = {}
    /\ InitTasks
    /\ nOps = MaxOps - 1
    /\ active = {"t1"}
    /\ log = {}
    /\ nFaults = 0

NextSwitch ==
    \E t \in Tasks :
       \/ StartAddModrinthMod(t, {"p1"}, AllVersions("Modrinth"), BOOLEAN)
       \/ ModrinthEnter(t)
       \/ ModrinthLock(t)
       \/ ModrinthCheck(t)
       \/ ModrinthPush(t)
       \/ ModrinthSaved(t)
       \/ ModrinthDeps(t)
       \/ ModrinthFetch(t)
       \/ ModrinthDep(t)
       \/ StartAddModFromPayload(t, {"p1"}, {"Modrinth", "CurseForge"}, BOOLEAN)
       \/ PayloadLock(t)
       \/ PayloadCheck(t)
       \/ PayloadPush(t)
       \/ PayloadSaved(t)
       \/ PayloadDeps(t)
       \/ PayloadDetails(t)
       \/ PayloadDone(t)
       \/ InstallProfile(t)
       \/ InstallModrinthDep(t)
       \/ InstallCurseForgeDep(t)
       \/ StartSwitchModrinth(t, {"p1"})
       \/ SwitchModrinthLock(t)
       \/ SwitchModrinthApply(t)
       \/ SwitchModrinthSaved(t)
       \/ SwitchModrinthDep(t)
       \/ StartSwitchCurseForge(t, {"p1"})
       \/ SwitchCurseForgeLock(t)
       \/ SwitchCurseForgeApply(t)
       \/ SwitchCurseForgeSaved(t)
       \/ SwitchCurseForgeDone(t)
       \/ StartSwitchPayload(t, {"p1"})
       \/ SwitchPayloadLock(t)
       \/ SwitchPayloadApply(t)
       \/ SwitchPayloadSaved(t)
       \/ SwitchPayloadDone(t)
       \/ InstallMissingProfile(t)
       \/ InstallMissingDep(t)
       \/ SaveLock(t)
       \/ SaveSnapshot(t)
       \/ SaveWrite(t)
       \/ SaveDone(t)

SpecSwitch == InitSwitch /\ [][NextSwitch]_vars

\* ------------------------------------------------------- the path resolver

\* The profiles the resolver is asked about: every pairing of a raw path, a
\* group (none, the isolated names in several spellings, a custom one, a client
\* one), a stored shared-folder flag and a game version.
PathInputs ==
    {Profile("p1", path, group, shared, game_version, "Fabric", <<>>) :
        path \in {<<"a">>, <<"/", "a", "/">>, <<"groups", "/", "x">>},
        group \in {NoGroup, <<"server">>, <<"SERVER">>, <<"Server">>, <<"modpacks">>,
                   <<"Modpacks">>, <<"X">>, <<"NRC">>, <<"GEG">>, <<"GEG", " ", "client">>},
        shared \in BOOLEAN,
        game_version \in {"1.20.1", "1.8.9"}}

StartCalculateInstancePath(t, inputs) ==
    /\ Idle(t)
    /\ \E profile \in inputs :
          Begin(t, [name |-> "calculate_instance_path_for_profile", profile |-> profile],
                "path_calc", [x |-> None])
    /\ UNCHANGED <<profiles, diskVars, fsVars, guards, nextUuid, envVars>>

\* Ok(final_path)
CalculateInstancePath(t) ==
    /\ tk[t].pc = "path_calc"
    /\ Return(t, calculate_instance_path_for_profile(tk[t].call.profile))
    /\ UNCHANGED <<profiles, diskVars, fsVars, nOps, nextUuid, envVars>>

InitPath ==
    /\ profiles = EmptyMap
    /\ file = AbsentFile
    /\ backups = <<>>
    /\ corrupted = {}
    /\ dirs = {}
    /\ trash = {}
    /\ InitTasks
    /\ nOps = 1
    /\ nextUuid = 0
    /\ catalog = <<>>
    /\ active = Tasks
    /\ log = {}
    /\ nFaults = 0

NextPath ==
    \E t \in Tasks :
       \/ StartCalculateInstancePath(t, PathInputs)
       \/ CalculateInstancePath(t)

SpecPath == InitPath /\ [][NextPath]_vars

\* ------------------------------------------------ the mods paths as calls

\* Three ids: the first two differ between their first two and their last two
\* digits only.
Uuids ==
    {<<"a", "b", "-", "0", "-", "c", "d">>, <<"a", "b", "-", "1", "-", "c", "d">>,
     <<"e", "f", "-", "0", "-", "c", "d">>}

\* The profiles the callers pass: with and without a group, of two loaders and
\* two game versions, standard versions among them.
ModsPathInputs ==
    {[Profile(id, <<"a">>, group, shared, game_version, loader, <<>>)
         EXCEPT !.is_standard_version = is_standard_version] :
        id \in Uuids,
        group \in {NoGroup, <<"X">>, <<"server">>},
        shared \in BOOLEAN,
        game_version \in {"1.20.1", "1.8.9"},
        loader \in {"Fabric", "Forge"},
        is_standard_version \in BOOLEAN}

StartGetProfileModsPath(t, inputs) ==
    /\ Idle(t)
    /\ \E profile \in inputs :
          Begin(t, [name |-> "get_profile_mods_path", profile |-> profile],
                "mods_path", [x |-> None])
    /\ UNCHANGED <<profiles, diskVars, fsVars, guards, nextUuid, envVars>>

\* Ok(mods_path)
GetProfileModsPath(t) ==
    /\ tk[t].pc = "mods_path"
    /\ Return(t, get_profile_mods_path(tk[t].call.profile))
    /\ UNCHANGED <<profiles, diskVars, fsVars, nOps, nextUuid, envVars>>

StartGetProfileModsPathShared(t, inputs) ==
    /\ Idle(t)
    /\ \E profile \in inputs :
          Begin(t, [name |-> "get_profile_mods_path_shared", profile |-> profile],
                "mods_path_shared", [x |-> None])
    /\ UNCHANGED <<profiles, diskVars, fsVars, guards, nextUuid, envVars>>

\* Ok(mods_path)
GetProfileModsPathShared(t) ==
    /\ tk[t].pc = "mods_path_shared"
    /\ Return(t, get_profile_mods_path_shared(tk[t].call.profile))
    /\ UNCHANGED <<profiles, diskVars, fsVars, nOps, nextUuid, envVars>>

NextModsPath ==
    \E t \in Tasks :
       \/ StartGetProfileModsPath(t, ModsPathInputs)
       \/ GetProfileModsPath(t)
       \/ StartGetProfileModsPathShared(t, ModsPathInputs)
       \/ GetProfileModsPathShared(t)

\* Two tasks, one call each.
SpecModsPath == InitPath /\ [][NextModsPath]_vars

\* ------------------------------------------- the choice of a dependency's version

MaxDepVersions == 3

\* The lists get_mod_versions can answer with for a dependency's project: up to
\* MaxDepVersions versions, each for no, one or the other game version, published
\* at one of two dates, with a primary file.
DepVersionLists ==
    LET Ids == <<"d1", "d2", "d3">>
        Shapes == {{}, {"1.19"}, {"1.20.1"}} \X {1, 2}
    IN  UNION {{[i \in 1..n |-> Version(Ids[i], "D", "1.0", <<>>, <<File("d.jar", TRUE)>>,
                                        shape[i][1], {"fabric"}, shape[i][2])] :
                   shape \in [1..n -> Shapes]} : n \in 0..MaxDepVersions}

\* What the choice is made from: the versions listed, the version id the
\* dependency names (or none, or one that is not listed), the game versions of
\* the parent's version, and the profile's game version.
SelectionInputs ==
    [dep_versions : DepVersionLists,
     target_version_id : {None, "d1", "d3", "d9"},
     parent_game_versions : {{}, {"1.19"}, {"1.19", "1.20.1"}},
     profile_game_version : {"1.19", "1.20.1"}]

StartSelectDependencyVersion(t, inputs) ==
    /\ Idle(t)
    /\ \E input \in inputs :
          Begin(t, [name |-> "best_dep_version", input |-> input], "dep_select", [x |-> None])
    /\ UNCHANGED <<profiles, diskVars, fsVars, guards, nextUuid, envVars>>

\* best_dep_version, as add_modrinth_mod_internal works it out (917-951)
SelectDependencyVersion(t) ==
    /\ tk[t].pc = "dep_select"
    /\ Return(t, BestDependencyVersion(tk[t].call.input.dep_versions,
                                       tk[t].call.input.target_version_id,
                                       tk[t].call.input.parent_game_versions,
                                       tk[t].call.input.profile_game_version))
    /\ UNCHANGED <<profiles, diskVars, fsVars, nOps, nextUuid, envVars>>

NextSelect ==
    \E t \in Tasks :
       \/ StartSelectDependencyVersion(t, SelectionInputs)
       \/ SelectDependencyVersion(t)

\* One task makes one choice.
InitSelect ==
    /\ profiles = EmptyMap
    /\ file = AbsentFile
    /\ backups = <<>>
    /\ corrupted = {}
    /\ dirs = {}
    /\ trash = {}
    /\ InitTasks
    /\ nOps = MaxOps - 1
    /\ nextUuid = 0
    /\ catalog = <<>>
    /\ active = {"t1"}
    /\ log = {}
    /\ nFaults = 0

SpecSelect == InitSelect /\ [][NextSelect]_vars

\* ------------------------------------------------------------- custom mods

\* A file name is the sequence of its parts; format!("{}.disabled", filename).
disabled_filename(filename) == Append(filename, ".disabled")

\* A check that takes every file name for a base name.
TakenAsBaseName(filename) == FALSE

\* filename.ends_with(".disabled")
ends_with_disabled(filename) == filename # <<>> /\ filename[Len(filename)] = ".disabled"

\* get_profile_custom_mods_path: <instance path>/custom_mods.
custom_mods_dir(profile) ==
    Append(calculate_instance_path_for_profile(profile), <<"custom_mods">>)

\* A comparison that never finds the mod in the state asked for.
NeverAlready(current_enabled, set_enabled) == FALSE

\* if current_enabled == set_enabled
AlreadySet(current_enabled, set_enabled) == current_enabled = set_enabled

\* The file names callers pass, and the files a custom_mods directory may hold.
CustomFilenames == {<<"m", ".jar">>, <<"m", ".jar", ".disabled">>, <<"n", ".jar">>}
CustomFiles == {<<"m", ".jar">>, <<"m", ".jar", ".disabled">>, <<"n", ".jar", ".disabled">>}

StartSetCustomModEnabled(t, ids, filenames) ==
    /\ Idle(t)
    /\ \E profile_id \in ids, filename \in filenames, set_enabled \in BOOLEAN :
          Begin(t, [name |-> "set_custom_mod_enabled", profile_id |-> profile_id,
                    filename |-> filename, set_enabled |-> set_enabled, before |-> dirs],
                "scm_path", [custom_mods_path |-> <<>>])
    /\ UNCHANGED <<profiles, diskVars, fsVars, guards, nextUuid, envVars>>

\* get_profile_custom_mods_path under a read guard (no standard version has the
\* id of a profile the map lacks), then the check of the file name.
SetCustomModPath(t) ==
    /\ tk[t].pc = "scm_path"
    /\ CanRead(t)
    /\ IF tk[t].call.profile_id \notin DOMAIN profiles
       THEN Return(t, "err_profile_not_found")
       ELSE IF ends_with_disabled(tk[t].call.filename)
       THEN Return(t, "err_invalid_filename")
       ELSE /\ tk' = [tk EXCEPT ![t].pc = "scm_check",
                        ![t].loc = [custom_mods_path |->
                                       custom_mods_dir(profiles[tk[t].call.profile_id])]]
            /\ guards' = guards
    /\ UNCHANGED <<profiles, diskVars, fsVars, nOps, nextUuid, envVars>>

\* enabled_path.exists(), disabled_path.exists(); neither: an error; the state
\* asked for: Ok(()).
SetCustomModCheck(t) ==
    /\ tk[t].pc = "scm_check"
    /\ LET enabled_path == Append(tk[t].loc.custom_mods_path, tk[t].call.filename)
           disabled_path == Append(tk[t].loc.custom_mods_path,
                                   disabled_filename(tk[t].call.filename))
           current_enabled == enabled_path \in dirs
           currently_exists_as_disabled == disabled_path \in dirs
       IN  IF ~current_enabled /\ ~currently_exists_as_disabled
           THEN Return(t, "err_file_not_found")
           ELSE IF AlreadySet(current_enabled, tk[t].call.set_enabled)
           THEN Return(t, "ok")
           ELSE /\ tk' = [tk EXCEPT ![t].pc = "scm_rename"]
                /\ guards' = guards
    /\ UNCHANGED <<profiles, diskVars, fsVars, nOps, nextUuid, envVars>>

\* tokio::fs::rename between the two forms of the name: it fails when the file
\* to rename is missing and may fail otherwise; it replaces a file at the target.
SetCustomModRename(t) ==
    /\ tk[t].pc = "scm_rename"
    /\ LET enabled_path == Append(tk[t].loc.custom_mods_path, tk[t].call.filename)
           disabled_path == Append(tk[t].loc.custom_mods_path,
                                   disabled_filename(tk[t].call.filename))
           from == IF tk[t].call.set_enabled THEN disabled_path ELSE enabled_path
           to == IF tk[t].call.set_enabled THEN enabled_path ELSE disabled_path
       IN  \E ok \in IF from \in dirs THEN Outcomes ELSE {FALSE} :
              /\ nFaults' = IF ok \/ from \notin dirs THEN nFaults ELSE nFaults + 1
              /\ dirs' = IF ok THEN (dirs \ {from}) \cup {to} ELSE dirs
              /\ Return(t, IF ok THEN "ok" ELSE "err_io")
    /\ UNCHANGED <<profiles, diskVars, trash, nOps, nextUuid, quietVars>>

\* A manager with profile p1 loaded, whose custom_mods directory holds some of
\* the files.
InitCustom ==
    /\ profiles = [k \in {"p1"} |->
                      Profile("p1", <<"a">>, NoGroup, FALSE, "1.20.1", "Fabric", <<>>)]
    /\ file = ValidFile(SerializeProfiles(profiles))
    /\ backups = <<>>
    /\ corrupted = {}
    /\ \E content \in SUBSET CustomFiles :
          dirs = WithAncestors(custom_mods_dir(profiles["p1"]))
                    \cup {Append(custom_mods_dir(profiles["p1"]), f) : f \in content}
    /\ trash = {}
    /\ InitTasks
    /\ nOps = 0
    /\ nextUuid = 0
    /\ catalog = <<>>
    /\ active = {"t1"}
    /\ log = {}
    /\ nFaults = 0

NextCustom ==
    \E t \in Tasks :
       \/ StartSetCustomModEnabled(t, ProfileIds, CustomFilenames)
       \/ SetCustomModPath(t)
       \/ SetCustomModCheck(t)
       \/ SetCustomModRename(t)

SpecCustom == InitCustom /\ [][NextCustom]_vars

\* ------------------------------------------------- sync_standard_profiles

\* A template of the version manager's configuration (standard_profiles).
StandardProfile(id, path) ==
    [Profile(id, path, <<"NRC">>, TRUE, "1.20.1", "Fabric",
             <<Mod("t", LocalSource("t.jar"), "1", {"1.20.1"})>>)
        EXCEPT !.name = "standard", !.loader_version = "0.16", !.description = "text",
               !.selected_GEG_pack_id = "pack", !.banner = "banner.png",
               !.background = "background.png", !.is_standard_version = TRUE,
               !.settings = "template", !.state = "Installed",
               !.disabled_GEG_mods_detailed = {}, !.timestamps = 1]

\* The configurations the version manager may hold.
StandardConfigs ==
    {<<>>, <<StandardProfile("s1", <<"std">>)>>, <<StandardProfile("s2", <<"b">>)>>,
     <<StandardProfile("s1", <<"std">>), StandardProfile("s2", <<"b">>)>>}

\* A copy that takes over the whole template.
WholeTemplate(copy, standard_profile) == [standard_profile EXCEPT !.id = copy.id]

\* update_copy_with_forced_fields: the fields the function assigns, each when
\* it differs.
ForcedFields(copy, standard_profile) ==
    [copy EXCEPT !.name = standard_profile.name,
                 !.group = standard_profile.group,
                 !.game_version = standard_profile.game_version,
                 !.loader = standard_profile.loader,
                 !.loader_version = standard_profile.loader_version,
                 !.description = standard_profile.description,
                 !.selected_GEG_pack_id = standard_profile.selected_GEG_pack_id,
                 !.banner = standard_profile.banner,
                 !.background = standard_profile.background,
                 !.is_standard_version = standard_profile.is_standard_version,
                 !.path = standard_profile.path]

\* create_editable_copy_from_standard: the clone with the link to the template,
\* new timestamps and the state NotInstalled; the id is the template's.
EditableCopy(standard_profile) ==
    [standard_profile EXCEPT !.source_standard_profile_id = standard_profile.id,
                             !.timestamps = 2, !.state = "NotInstalled"]

StartSyncStandardProfiles(t, configs) ==
    /\ Idle(t)
    /\ \E standard_profiles \in configs :
          Begin(t, [name |-> "sync_standard_profiles",
                    standard_profiles |-> standard_profiles, before |-> profiles],
                "sync_ensure", [existing_copies_by_source_id |-> EmptyMap, i |-> 1])
    /\ UNCHANGED <<profiles, diskVars, fsVars, guards, nextUuid, envVars>>

\* ensure_profiles_loaded with the profiles loaded (the map is not empty), then
\* State::get(), whose failure ends the sync with Ok(()), and the configuration:
\* an empty one ends the sync.
SyncEnsureLoaded(t) ==
    /\ tk[t].pc = "sync_ensure"
    /\ CanRead(t)
    /\ DOMAIN profiles # {}
    /\ \E ok \in Outcomes :
          /\ Spent(ok)
          /\ IF ok /\ tk[t].call.standard_profiles # <<>>
             THEN tk' = [tk EXCEPT ![t].pc = "sync_list"] /\ guards' = guards
             ELSE Return(t, "ok")
    /\ UNCHANGED <<profiles, diskVars, fsVars, nOps, nextUuid, quietVars>>

\* list_profiles and the lookup map: of the profiles with one source id the map
\* keeps the one listed last, the order being the hash map's.
SyncList(t) ==
    /\ tk[t].pc = "sync_list"
    /\ CanRead(t)
    /\ LET source_ids == {profiles[k].source_standard_profile_id : k \in DOMAIN profiles}
                            \ {None}
       IN  \E existing \in [source_ids -> DOMAIN profiles] :
              /\ \A source_id \in source_ids :
                    profiles[existing[source_id]].source_standard_profile_id = source_id
              /\ tk' = [tk EXCEPT ![t].pc = "sync_loop",
                                  ![t].loc.existing_copies_by_source_id = existing]
    /\ UNCHANGED <<profiles, diskVars, fsVars, guards, nOps, nextUuid, envVars>>

\* The template the loop of task t is at.
SyncTemplate(t) == tk[t].call.standard_profiles[tk[t].loc.i]

\* The copy the lookup map names for that template.
SyncCopyId(t) == tk[t].loc.existing_copies_by_source_id[SyncTemplate(t).id]

\* for standard_profile in standard_profiles: update the copy, or create one.
SyncLoop(t) ==
    /\ tk[t].pc = "sync_loop"
    /\ IF tk[t].loc.i > Len(tk[t].call.standard_profiles)
       THEN Return(t, "ok")
       ELSE /\ tk' = [tk EXCEPT ![t].pc =
                        IF SyncTemplate(t).id \in DOMAIN tk[t].loc.existing_copies_by_source_id
                        THEN "sync_update_lock" ELSE "sync_create_dir"]
            /\ guards' = guards
    /\ UNCHANGED <<profiles, diskVars, fsVars, nOps, nextUuid, envVars>>

\* let mut profiles = self.profiles.write().await
SyncUpdateLock(t) ==
    /\ tk[t].pc = "sync_update_lock"
    /\ CanWrite(t)
    /\ guards' = [guards EXCEPT ![t] = @ \cup {"write"}]
    /\ tk' = [tk EXCEPT ![t].pc = "sync_update"]
    /\ UNCHANGED <<profiles, diskVars, fsVars, nOps, nextUuid, envVars>>

\* update_copy_with_forced_fields: a copy that changed is saved; a missing
\* copy is an error the sync only warns about.
SyncUpdate(t) ==
    /\ tk[t].pc = "sync_update"
    /\ guards' = [guards EXCEPT ![t] = Dropped(t)]
    /\ IF SyncCopyId(t) \in DOMAIN profiles
       THEN LET updated == ForcedFields(profiles[SyncCopyId(t)], SyncTemplate(t))
            IN  /\ profiles' = [profiles EXCEPT ![SyncCopyId(t)] = updated]
                /\ IF updated # profiles[SyncCopyId(t)]
                   THEN EnterSave(t, "sync_saved")
                   ELSE tk' = [tk EXCEPT ![t].pc = "sync_loop", ![t].loc.i = @ + 1]
       ELSE /\ profiles' = profiles
            /\ tk' = [tk EXCEPT ![t].pc = "sync_loop", ![t].loc.i = @ + 1]
    /\ UNCHANGED <<diskVars, fsVars, nOps, nextUuid, envVars>>

\* The result of the save is logged, whatever it is; the loop goes on.
SyncSaved(t) ==
    /\ tk[t].pc = "sync_saved"
    /\ tk' = [tk EXCEPT ![t].pc = "sync_loop", ![t].loc.i = @ + 1]
    /\ UNCHANGED <<profiles, diskVars, fsVars, guards, nOps, nextUuid, envVars>>

\* create_profile(editable_copy): fs::create_dir_all of its instance path.
SyncCreateDir(t) ==
    /\ tk[t].pc = "sync_create_dir"
    /\ \E ok \in Outcomes :
          /\ Spent(ok)
          /\ IF ok
             THEN /\ dirs' = create_dir_all(calculate_instance_path_for_profile(
                                               EditableCopy(SyncTemplate(t))))
                  /\ tk' = [tk EXCEPT ![t].pc = "sync_create_insert"]
             ELSE /\ dirs' = dirs
                  /\ tk' = [tk EXCEPT ![t].pc = "sync_loop", ![t].loc.i = @ + 1]
    /\ UNCHANGED <<profiles, diskVars, trash, guards, nOps, nextUuid, quietVars>>

\* profiles.insert(id, profile) under the write guard, then save_profiles.
SyncCreateInsert(t) ==
    /\ tk[t].pc = "sync_create_insert"
    /\ CanWrite(t)
    /\ profiles' = MapInsert(profiles, SyncTemplate(t).id, EditableCopy(SyncTemplate(t)))
    /\ EnterSave(t, "sync_saved")
    /\ UNCHANGED <<diskVars, fsVars, guards, nOps, nextUuid, envVars>>

\* The fields in which the copies at the start differ from the template.
Differences ==
    {{}, {"name"}, {"group"}, {"game_version"}, {"loader"}, {"loader_version"},
     {"description"}, {"selected_GEG_pack_id"}, {"banner"}, {"background"},
     {"is_standard_version"}, {"path"},
     {"name", "group", "game_version", "loader", "loader_version", "description",
      "selected_GEG_pack_id", "banner", "background", "is_standard_version", "path"}}

\* A user copy of template s1 that differs from it in the fields of differs.
UserCopy(id, differs) ==
    LET user == [Profile(id, <<"a">>, NoGroup, FALSE, "1.8.9", "Forge",
                         <<Mod("u", LocalSource("u.jar"), "1", {"1.8.9"})>>)
                    EXCEPT !.name = "mine", !.settings = "custom", !.state = "Installed",
                           !.disabled_GEG_mods_detailed = PackMods,
                           !.source_standard_profile_id = "s1"]
        standard_profile == StandardProfile("s1", <<"std">>)
    IN  [f \in DOMAIN user |->
            IF f \in differs \/ f \notin UNION Differences THEN user[f]
            ELSE standard_profile[f]]

\* A manager with a copy of template s1 loaded, beside a profile of the user's
\* own or a second copy of the template.
InitSync ==
    /\ \E differs \in Differences :
       \E other \in {Profile("p2", <<"b">>, NoGroup, FALSE, "1.20.1", "Fabric", <<>>),
                     UserCopy("p2", {"name"})} :
          profiles = [k \in {"p1", "p2"} |-> IF k = "p1" THEN UserCopy("p1", differs)
                                             ELSE other]
    /\ file = ValidFile(SerializeProfiles(profiles))
    /\ backups = <<>>
    /\ corrupted = {}
    /\ dirs = UNION {WithAncestors(calculate_instance_path_for_profile(profiles[k])) :
                        k \in DOMAIN profiles}
    /\ trash = {}
    /\ InitTasks
    /\ nOps = 1
    /\ nextUuid = 0
    /\ catalog = <<>>
    /\ active = {"t1"}
    /\ log = {}
    /\ nFaults = 0

NextSync ==
    \E t \in Tasks :
       \/ StartSyncStandardProfiles(t, StandardConfigs)
       \/ SyncEnsureLoaded(t)
       \/ SyncList(t)
       \/ SyncLoop(t)
       \/ SyncUpdateLock(t)
       \/ SyncUpdate(t)
       \/ SyncSaved(t)
       \/ SyncCreateDir(t)
       \/ SyncCreateInsert(t)
       \/ SaveLock(t)
       \/ SaveSnapshot(t)
       \/ SaveWrite(t)
       \/ SaveDone(t)

SpecSync == InitSync /\ [][NextSync]_vars


\* ----------------------------------------------- properties of the mod lists

\* No two records of the list have equal sources.
DistinctSources(mods) ==
    \A i, j \in DOMAIN mods : mods[i].source = mods[j].source => i = j

\* C1: in every reachable state, after any sequence of add_mod, add_modrinth_mod,
\* add_mod_from_payload, delete_mod, update_profile and the version switches, no
\* profile's mod list holds two Mod records with equal ModSource values.
C1_NoDuplicateSources == \A k \in DOMAIN profiles : DistinctSources(profiles[k].mods)

\* C1, for the version switches alone: a switch does not make two sources equal.
C1_SwitchKeepsSourcesDistinct ==
    [][\A t \in Tasks :
          (tk[t].pc \in {"swm_apply", "swc_apply"} /\ C1_NoDuplicateSources)
             => C1_NoDuplicateSources']_vars

\* The records of the list for version key[2] of Modrinth project key[1].
Records(mods, key) ==
    {i \in DOMAIN mods : /\ mods[i].source.variant = "Modrinth"
                         /\ mods[i].source.project_id = key[1]
                         /\ mods[i].source.version_id = key[2]}

\* The (project, version) pairs add_modrinth_mod_internal went to work on in the
\* operation of task t.
Resolved(t) == {e.parent : e \in {x \in log : x.task = t /\ x.kind = "resolved"}}

\* Every fetch of the operation of task t answered.
AllAnswered(t) == \A e \in log : (e.task = t /\ e.kind \in {"self", "dep"}) => e.ok

\* Task t runs, or has run last, add_modrinth_mod with dependency recursion.
Recursing(t) == tk[t].call.name = "add_modrinth_mod" /\ tk[t].call.add_dependencies

Returned(t) == tk[t].pc = "done"

ModsOf(t) == profiles[tk[t].call.profile_id].mods

\* C3 as stated: on every finite dependency graph, cyclic ones included,
\* add_modrinth_mod with dependency recursion terminates when all fetches answer,
\* and each (project, version) it resolves ends up as exactly one Mod record.
C3_TerminatesOneRecordEach ==
    /\ [](\A t \in Tasks :
             (Recursing(t) /\ Returned(t) /\ AllAnswered(t)) =>
                \A key \in Resolved(t) : Cardinality(Records(ModsOf(t), key)) = 1)
    /\ \A t \in Tasks : (Recursing(t) /\ ~Returned(t)) ~> Returned(t)

\* C3: on every finite dependency graph, cyclic ones included, add_modrinth_mod
\* with dependency recursion terminates, and each (project, version) it resolves
\* ends up as a Mod record: as exactly one when the profile held no record of that
\* (project, version) before the call.
C3_TerminatesOneRecordEachNew ==
    /\ [](\A t \in Tasks :
             (Recursing(t) /\ Returned(t)) =>
                \A key \in Resolved(t) :
                   /\ Records(ModsOf(t), key) # {}
                   /\ Records(tk[t].call.before, key) = {} =>
                         Cardinality(Records(ModsOf(t), key)) = 1)
    /\ \A t \in Tasks : (Recursing(t) /\ ~Returned(t)) ~> Returned(t)

\* The cycle A requires B requires A, added to an empty list: both installed once.
C3_CycleInstalledOnce ==
    \E t \in Tasks :
       /\ Recursing(t) /\ Returned(t) /\ AllAnswered(t)
       /\ tk[t].call.before = <<>>
       /\ Resolved(t) = {<<"A", "a1">>, <<"B", "b1">>}
       /\ \A key \in Resolved(t) : Cardinality(Records(ModsOf(t), key)) = 1
       /\ Len(ModsOf(t)) = 2

\* The step of task t is the check of a switch whose new version is of another
\* project than the mod to switch.
SwitchMismatch(t) ==
    /\ tk[t].pc \in {"swm_apply", "swc_apply"}
    /\ tk'[t] # tk[t]
    /\ tk[t].call.profile_id \in DOMAIN profiles
    /\ \E i \in position(ModsOf(t), tk[t].call.mod_id) :
          /\ ModsOf(t)[i].source.variant = Top(t).platform
          /\ ModsOf(t)[i].source.project_id # tk[t].call.new_version_details.project_id

\* C4: update_profile_modrinth_mod_version and
\* update_profile_curseforge_mod_version, when the new version's project id
\* differs from the project id of the installed mod, return an error and leave
\* the Mod record, the rest of the profile and the persisted store unchanged: the
\* call ends there, without a save and without a dependency installed.
C4_MismatchRejected ==
    [][\A t \in Tasks :
          SwitchMismatch(t) =>
             /\ tk'[t].pc = "done"
             /\ tk'[t].ret = "err_project_mismatch"
             /\ guards'[t] = {}
             /\ profiles' = profiles
             /\ <<file, backups, corrupted>>' = <<file, backups, corrupted>>]_vars

\* A switch to a version of another project has returned its error; the mod is
\* what it was.
C4_Rejected ==
    \E t \in Tasks :
       /\ Returned(t)
       /\ tk[t].ret = "err_project_mismatch"
       /\ \E i \in position(ModsOf(t), tk[t].call.mod_id) :
             /\ ModsOf(t)[i].source.project_id # tk[t].call.new_version_details.project_id
             /\ ModsOf(t)[i].source.version_id # tk[t].call.new_version_details.id
       /\ file = ValidFile(SerializeProfiles(profiles))

AddCalls == {"add_modrinth_mod", "add_mod_from_payload"}

\* The fetches for dependencies that failed in the add that task t runs with
\* dependency recursion.
FailedDependencies(t) ==
    IF tk[t].call.name \in AddCalls /\ tk[t].call.add_dependencies
    THEN {e \in log : e.task = t /\ e.kind = "dep" /\ ~e.ok}
    ELSE {}

\* The version the log entry e is about, as the registry has it.
ParentVersion(e) ==
    {v \in AllVersions(e.platform) : v.project_id = e.parent[1] /\ v.id = e.parent[2]}

\* Every required dependency of e's parent that names a project was dealt with.
SiblingsProcessed(t, e) ==
    \A v \in ParentVersion(e) : \A i \in DOMAIN v.dependencies :
       (v.dependencies[i].required /\ v.dependencies[i].project_id # None) =>
          \E e2 \in log : /\ e2.task = t
                          /\ e2.kind = "dep"
                          /\ e2.platform = e.platform
                          /\ e2.parent = e.parent
                          /\ e2.dep = v.dependencies[i]

\* C8: during recursive dependency installation a failed fetch for one required
\* dependency does not abort the operation: every other required dependency of
\* the same parent is still processed, and the top-level add returns success.
C8_FailedFetchDoesNotAbort ==
    /\ [](\A t \in Tasks :
             Returned(t) =>
                \A e \in FailedDependencies(t) :
                   tk[t].ret = "ok" /\ SiblingsProcessed(t, e))
    /\ \A t \in Tasks : (FailedDependencies(t) # {}) ~> Returned(t)

\* An add has returned success although the fetch for one required dependency
\* failed; another required dependency of the same parent was fetched and added.
C8_SiblingInstalled ==
    \E t \in Tasks :
       /\ Returned(t)
       /\ tk[t].ret = "ok"
       /\ \E e \in FailedDependencies(t) :
          \E e2 \in log :
             /\ e2.task = t /\ e2.kind = "dep" /\ e2.ok
             /\ e2.parent = e.parent
             /\ e2.dep # e.dep
             /\ e2.dep.project_id # None
             /\ \E i \in DOMAIN ModsOf(t) :
                   ModsOf(t)[i].source.project_id = e2.dep.project_id

\* Task t runs, or has run last, an add with dependency recursion for a source
\* that was on the list when the call began.
AddingPresent(t) ==
    /\ tk[t].call.name \in AddCalls
    /\ tk[t].call.add_dependencies
    /\ AnySourceIs(tk[t].call.before, tk[t].call.source)

SourceCount(mods, source) == Cardinality({i \in DOMAIN mods : mods[i].source = source})

\* C9: add_modrinth_mod or add_mod_from_payload, called with dependency recursion
\* for a source that is already on the profile's list, inserts no record for that
\* source, still processes the mod's dependencies, and eventually returns.
C9_BackfillsAndReturns ==
    /\ [](\A t \in Tasks :
             AddingPresent(t) =>
                /\ SourceCount(ModsOf(t), tk[t].call.source)
                      = SourceCount(tk[t].call.before, tk[t].call.source)
                /\ (Returned(t) /\ tk[t].ret = "ok") =>
                      \E e \in log : e.task = t /\ e.kind = "self")
    /\ \A t \in Tasks : (AddingPresent(t) /\ ~Returned(t)) ~> Returned(t)

AddNames == AddCalls \cup {"add_mod"}

\* C10: in add_mod, add_modrinth_mod and add_mod_from_payload the existence check
\* and the insert happen under one hold of the write lock: whatever the
\* interleaving of concurrent adds, no source is on a list twice, and the source
\* of every add that has returned is on the list.
C10_AddsLinearized ==
    /\ \A k \in DOMAIN profiles : DistinctSources(profiles[k].mods)
    /\ \A t \in Tasks :
          (Returned(t) /\ tk[t].call.name \in AddNames) =>
             AnySourceIs(ModsOf(t), tk[t].call.source)

\* Two adds of one source, each begun before the other had inserted, have both
\* returned: the source is on the list once.
C10_ConcurrentAddsOneRecord ==
    /\ \A t \in Tasks :
          /\ Returned(t)
          /\ tk[t].call.name \in AddNames
          /\ ~AnySourceIs(tk[t].call.before, tk[t].call.source)
    /\ tk["t1"].call.source = tk["t2"].call.source
    /\ SourceCount(profiles["p1"].mods, tk["t1"].call.source) = 1

\* ---------------------------------------------------- properties of the locks

\* The positions of save_profiles: at the request of the save lock, and under it.
SavePcs == {"save_lock", "save_snapshot", "save_write", "save_done"}

\* C11: no task requests the save lock, or holds it, while it holds the write
\* guard of the profile map: in every mutating operation the write guard is
\* released before save_profiles is entered.
C11_NoSaveUnderWrite ==
    \A t \in Tasks : tk[t].pc \in SavePcs => "write" \notin guards[t]

\* A set_mod_enabled that changed the flag under the write guard is at the
\* request of the save lock, with no guard left.
C11_SaveRequestedAfterDrop ==
    \E t \in Tasks :
       /\ tk[t].pc = "save_lock"
       /\ tk[t].call.name = "set_mod_enabled"
       /\ profiles[tk[t].call.profile_id] # tk[t].call.before
       /\ guards[t] = {}

\* The positions at which a task asks for the write guard of the map.
WriteRequestPcs ==
    {"am_lock", "dm_lock", "mr_lock", "pl_lock", "swm_lock", "swc_lock", "sme_lock",
     "smu_lock", "sgs_lock"}

\* Task t is about to ask a registry: for its own versions or details, or for
\* those of the required dependency its loop has come to.
AtFetch(t) ==
    \/ tk[t].pc \in {"mr_fetch", "pl_details"}
    \/ tk[t].pc = "pl_deps" /\ Top(t).add_dependencies
    \/ /\ tk[t].pc \in {"mr_dep", "imd_dep", "icd_dep", "swm_dep"}
       /\ Top(t).deps # <<>>
       /\ Head(Top(t).deps).required
       /\ Head(Top(t).deps).project_id # None

\* Task t is about to ask for a guard of the map: the write guard, or the read
\* guard of get_profile and of save_profiles.
AwaitsMap(t) ==
    \/ tk[t].pc \in WriteRequestPcs \cup {"inst_profile", "save_snapshot", "save_done"}
    \/ tk[t].pc = "mr_deps" /\ Top(t).add_dependencies

\* C12: the write guard of the map is held only across the in-memory edit: in
\* add_modrinth_mod, add_mod_from_payload and the version switches no task holds
\* it while it fetches from a registry or while it asks for a guard of the map
\* again, on the path of the source that already exists too.
C12_WriteGuardOnlyAcrossEdit ==
    \A t \in Tasks : (AtFetch(t) \/ AwaitsMap(t)) => "write" \notin guards[t]

\* Every task is between two operations.
AllReturned == \A t \in Tasks : tk[t].pc \in {"idle", "done"}

\* C13: saves are serialized by the save lock, and each save writes a snapshot
\* of the whole map taken while the lock is held; hence, whatever the
\* interleaving of concurrent mutating operations on a registry that stays
\* non-empty and whose saves all succeed, once all of them have returned the
\* persisted file holds exactly the in-memory map.
C13_SavesSerialized ==
    /\ \A t, u \in Tasks : ("save" \in guards[t] /\ "save" \in guards[u]) => t = u
    /\ \A t \in Tasks :
          tk[t].pc \in {"save_snapshot", "save_write", "save_done"} => "save" \in guards[t]
    /\ (AllReturned /\ nFaults = 0 /\ DOMAIN profiles # {}) =>
          file = ValidFile(SerializeProfiles(profiles))

\* Two add_mod of different sources, each begun before the other had inserted,
\* have both returned success: both records are in the map and in the file.
C13_BothMutationsPersisted ==
    /\ \A t \in Tasks :
          /\ tk[t].pc = "done"
          /\ tk[t].ret = "ok"
          /\ tk[t].call.name = "add_mod"
          /\ tk[t].call.before = tk["t1"].call.before
    /\ Len(profiles["p1"].mods) = Len(tk["t1"].call.before) + 2
    /\ nFaults = 0
    /\ file = ValidFile(SerializeProfiles(profiles))

\* Task t is in delete_profile, past the lookup and before the save.
Deleting(t) ==
    /\ tk[t].call.name = "delete_profile"
    /\ tk[t].pc \in {"del_check_main", "del_trash_main", "del_check_individual",
                     "del_trash_individual", "del_remove"}

\* C14: of two registered profiles that resolve to the same instance path,
\* deleting the first removes its registry entry and leaves the directory on
\* disk; deleting the second, then the only profile resolving to that path,
\* removes its entry and moves the directory to trash.
C14_SharedDirectoryOutlivesFirstDelete ==
    [][\A t \in Tasks :
          Deleting(t) =>
             LET path == tk[t].loc.profile_dir_path
                 shared == has_other_profile_with_same_path(tk[t].call.id, path,
                                                            InstancePathOf)
             IN  /\ (shared /\ path \in dirs) => path \in dirs'
                 /\ (~shared /\ tk[t].pc = "del_remove") =>
                       (path \notin dirs /\ tk[t].call.id \notin DOMAIN profiles')]_vars

\* C15: delete_profile with an id that is not in the registry returns
\* ProfileNotFound and changes nothing: the in-memory map, the persisted file
\* and the directories on disk are unchanged, and no save is performed.
C15_UnknownIdIsNotFound ==
    [][\A t \in Tasks :
          (/\ tk[t].call.name = "delete_profile"
           /\ tk[t].pc = "del_lookup"
           /\ tk[t].call.id \notin DOMAIN profiles
           /\ tk'[t] # tk[t]) =>
             /\ tk'[t].pc = "done"
             /\ tk'[t].ret = "err_profile_not_found"
             /\ UNCHANGED <<profiles, file, backups, corrupted, dirs, trash>>]_vars

\* delete_profile of an id the registry does not hold has returned, the
\* registry holding another profile.
C15_MissReturned ==
    \E t \in Tasks :
       /\ tk[t].pc = "done"
       /\ tk[t].call.name = "delete_profile"
       /\ tk[t].call.id \notin DOMAIN profiles
       /\ DOMAIN profiles # {}
       /\ tk[t].ret = "err_profile_not_found"
       /\ file = ValidFile(SerializeProfiles(profiles))

\* The records of a mod list that carry the source.
Carrying(mods, source) == {i \in DOMAIN mods : mods[i].source = source}

\* Task t runs, or has run, an add of a source its profile held at the call.
AddsPresent(t) ==
    /\ tk[t].pc # "idle"
    /\ tk[t].call.name \in {"add_mod", "add_modrinth_mod", "add_mod_from_payload"}
    /\ Carrying(tk[t].call.before, tk[t].call.source) # {}

IsolatedNames ==
    {<<"server">>, <<"SERVER">>, <<"Server">>, <<"modpacks">>, <<"Modpacks">>}

\* Task t has the answer of calculate_instance_path_for_profile.
PathResolved(t) ==
    tk[t].pc = "done" /\ tk[t].call.name = "calculate_instance_path_for_profile"

AsksCurrentState(t) ==
    /\ tk[t].pc # "idle"
    /\ tk[t].call.name = "set_custom_mod_enabled"
    /\ tk[t].call.profile_id \in DOMAIN profiles
    /\ ~ends_with_disabled(tk[t].call.filename)
    /\ LET dir == custom_mods_dir(profiles[tk[t].call.profile_id])
           enabled == Append(dir, tk[t].call.filename) \in tk[t].call.before
           disabled == Append(dir, Append(tk[t].call.filename, ".disabled"))
                          \in tk[t].call.before
       IN  \/ tk[t].call.set_enabled /\ enabled
           \/ ~tk[t].call.set_enabled /\ ~enabled /\ disabled

\* C18: set_custom_mod_enabled called with the state the custom mod is already
\* in returns success and performs no file operation: the directory content is
\* unchanged.
C18_CurrentStateIsNoOp ==
    \A t \in Tasks :
       AsksCurrentState(t) =>
          /\ dirs = tk[t].call.before
          /\ tk[t].pc # "scm_rename"
          /\ tk[t].pc = "done" => tk[t].ret = "ok"

\* A second call that asks for the state the first call has brought about (the
\* mod disabled by a rename) has returned.
C18_RepeatedToggleReturned ==
    \E t \in Tasks :
       /\ AsksCurrentState(t)
       /\ tk[t].pc = "done"
       /\ ~tk[t].call.set_enabled
       /\ nOps = 2
       /\ nFaults = 0
       /\ Append(custom_mods_dir(profiles["p1"]), <<"n", ".jar", ".disabled">>) \in dirs
       /\ tk[t].call.filename = <<"n", ".jar">>

Setters == {"set_mod_enabled", "set_mod_updates_enabled", "set_GEG_mod_status"}

\* The call of task t asks for what is stored: the flag of the mod has the
\* value, or the identifier is in the state.
AsksStored(t) ==
    /\ tk[t].call.profile_id \in DOMAIN profiles
    /\ LET profile == profiles[tk[t].call.profile_id]
       IN  CASE tk[t].call.name = "set_mod_enabled" ->
                   \E i \in DOMAIN profile.mods :
                      /\ profile.mods[i].id = tk[t].call.mod_id
                      /\ profile.mods[i].enabled = tk[t].call.value
             [] tk[t].call.name = "set_mod_updates_enabled" ->
                   \E i \in DOMAIN profile.mods :
                      /\ profile.mods[i].id = tk[t].call.mod_id
                      /\ profile.mods[i].updates_enabled = tk[t].call.value
             [] tk[t].call.name = "set_GEG_mod_status" ->
                   (tk[t].call.identifier \in profile.disabled_GEG_mods_detailed)
                      = tk[t].call.disabled

\* C19: a mod-level mutation that does not change state performs no save and
\* leaves the persisted file unchanged: set_mod_enabled and
\* set_mod_updates_enabled with the value already stored, and
\* set_GEG_mod_status for an identifier already in the requested state, return
\* success without flushing; each of them flushes exactly when it changed the
\* in-memory state.
C19_SettersFlushExactlyOnChange ==
    [][\A t \in Tasks :
          (/\ tk[t].call.name \in Setters
           /\ tk[t].pc \in {"sme_apply", "smu_apply", "sgs_apply"}
           /\ tk'[t] # tk[t]) =>
             /\ (profiles' # profiles) <=> (tk'[t].pc = "save_lock")
             /\ (profiles' # profiles) <=> (tk[t].call.profile_id \in DOMAIN profiles
                                            /\ ~AsksStored(t)
                                            /\ tk'[t].pc # "done")
             /\ AsksStored(t) =>
                   /\ profiles' = profiles
                   /\ file' = file
                   /\ tk'[t].pc = "done"
                   /\ tk'[t].ret = "ok"]_vars

\* set_mod_enabled with the value the mod has stored has returned success, map
\* and file as they were.
C19_NoOpToggleReturned ==
    \E t \in Tasks :
       /\ tk[t].pc = "done"
       /\ tk[t].call.name = "set_mod_enabled"
       /\ AsksStored(t)
       /\ tk[t].ret = "ok"
       /\ profiles[tk[t].call.profile_id] = tk[t].call.before
       /\ file = ValidFile(SerializeProfiles(profiles))
       /\ backups = <<>>

\* The fields the spec lists as forced.
AllowList ==
    {"name", "group", "game_version", "loader", "loader_version", "description",
     "selected_GEG_pack_id", "banner", "background", "is_standard_version", "path"}

\* C20: when sync_standard_profiles finds an existing user copy of a template,
\* it sets on the copy exactly the fields name, group, game_version, loader,
\* loader_version, description, selected pack id, banner, background,
\* is_standard_version and path to the template's values and leaves every
\* other field of the copy (id, mods, settings, state, disabled pack mods,
\* source link, shared-folder flag, timestamps) and every other profile
\* unchanged.
C20_ForcesExactlyTheAllowList ==
    [][\A t \in Tasks :
          (/\ tk[t].pc = "sync_update"
           /\ tk'[t] # tk[t]
           /\ SyncCopyId(t) \in DOMAIN profiles) =>
             /\ DOMAIN profiles' = DOMAIN profiles
             /\ \A f \in AllowList : profiles'[SyncCopyId(t)][f] = SyncTemplate(t)[f]
             /\ \A f \in DOMAIN profiles[SyncCopyId(t)] \ AllowList :
                   profiles'[SyncCopyId(t)][f] = profiles[SyncCopyId(t)][f]
             /\ \A k \in DOMAIN profiles \ {SyncCopyId(t)} : profiles'[k] = profiles[k]]_vars

\* A sync with template s1 alone has returned: copy p1, which differed from
\* the template in every forced field, has the template's values in them, its
\* own mods, settings and state, and is saved; profile p2 is as it was.
C20_CopyForcedAndSaved ==
    \E t \in Tasks :
       /\ tk[t].pc = "done"
       /\ tk[t].call.name = "sync_standard_profiles"
       /\ Len(tk[t].call.standard_profiles) = 1
       /\ tk[t].call.before["p1"].name = "mine"
       /\ tk[t].call.before["p1"].path = <<"a">>
       /\ profiles["p1"].name = "standard"
       /\ profiles["p1"].path = <<"std">>
       /\ profiles["p1"].mods = tk[t].call.before["p1"].mods
       /\ profiles["p1"].settings = "custom"
       /\ profiles["p1"].state = "Installed"
       /\ profiles["p2"] = tk[t].call.before["p2"]
       /\ profiles["p2"].source_standard_profile_id = None
       /\ file = ValidFile(SerializeProfiles(profiles))

\* C21: for every template profile that has no user copy linked to it,
\* sync_standard_profiles creates a new user profile whose id is fresh
\* (different from the template's id and from every registered profile's id),
\* whose lifecycle state is NotInstalled and whose source_standard_profile_id
\* is the template's id; after a sync without failures every template has a
\* linked copy in the registry.
C21_CreatesFreshLinkedCopy ==
    [][\A t \in Tasks :
          /\ (tk[t].pc = "sync_create_insert" /\ tk'[t] # tk[t]) =>
                \E id \in DOMAIN profiles' \ DOMAIN profiles :
                   /\ id # SyncTemplate(t).id
                   /\ profiles'[id].id = id
                   /\ profiles'[id].state = "NotInstalled"
                   /\ profiles'[id].source_standard_profile_id = SyncTemplate(t).id
                   /\ \A k \in DOMAIN profiles : profiles'[k] = profiles[k]
          /\ (/\ tk[t].call.name = "sync_standard_profiles"
              /\ tk[t].pc = "sync_loop"
              /\ tk'[t].pc = "done"
              /\ nFaults = 0) =>
                \A n \in DOMAIN tk[t].call.standard_profiles :
                   \E k \in DOMAIN profiles :
                      profiles[k].source_standard_profile_id
                         = tk[t].call.standard_profiles[n].id]_vars

\* C22: whenever persisting the collection fails after an in-memory mutation,
\* the failure is returned to the caller of the top-level operation that
\* caused the mutation; this includes the inserts of dependencies made during
\* add_modrinth_mod with recursion and during the version-switch operations.
\* Stated for the last save of an operation: when it failed, the operation
\* returns its error.
C22_SaveFailureReturned ==
    \A t \in Tasks :
       (tk[t].pc = "done" /\ tk[t].sres \notin {None, "ok"}) => tk[t].ret = tk[t].sres

\* C23: load_profiles_internal never returns an error: when the backing file
\* is absent it attempts a restore from backup, and when no backup can be
\* restored it returns an empty collection.
C23_LoadNeverFails ==
    [][\A t \in Tasks :
          (tk[t].pc = "load_loop" /\ tk'[t] # tk[t]) =>
             /\ tk'[t].pc \in {"load_loop", "done"}
             /\ tk'[t].pc = "done" => tk'[t].ret = "ok"
             /\ (file.state = "absent" /\ tk[t].loc.attempt_count = 0) =>
                   \/ /\ backups # <<>>
                      /\ file' = backups[Len(backups)]
                      /\ tk'[t].pc = "load_loop"
                   \/ /\ file' = file
                      /\ "restore" \in tk'[t].loc.faults
                      /\ tk'[t].pc = "done"
                      /\ tk'[t].loc.loaded = EmptyMap]_vars

\* A load that found no file and could restore no backup has returned the
\* empty collection.
C23_AbsentFileLoadedEmpty ==
    \E t \in Tasks :
       /\ tk[t].pc = "done"
       /\ tk[t].call.name = "load_profiles_internal"
       /\ tk[t].loc.start.state = "absent"
       /\ file.state = "absent"
       /\ tk[t].ret = "ok"
       /\ tk[t].loc.loaded = EmptyMap
       /\ tk[t].loc.attempt_count = 1

\* C24: create_profile whose directory creation fails returns the error
\* without inserting the record and without saving: the in-memory map and the
\* persisted file are unchanged.
C24_FailedDirectoryAbortsCreate ==
    [][\A t \in Tasks :
          (tk[t].pc = "create_dir" /\ tk'[t] # tk[t]) =>
             \/ /\ nFaults' = nFaults
                /\ tk'[t].pc = "create_insert"
                /\ calculate_instance_path_for_profile(tk[t].call.profile) \in dirs'
             \/ /\ nFaults' = nFaults + 1
                /\ tk'[t].pc = "done"
                /\ tk'[t].ret = "err_io"
                /\ UNCHANGED <<profiles, file, backups, corrupted>>]_vars

\* create_profile has returned the error of the directory creation: the
\* profile is not in the map and nothing was written.
C24_CreateFailedAtDirectory ==
    \E t \in Tasks :
       /\ tk[t].pc = "done"
       /\ tk[t].call.name = "create_profile"
       /\ tk[t].ret = "err_io"
       /\ tk[t].cont = None
       /\ tk[t].call.id \notin DOMAIN profiles
       /\ file.state # "valid"
       /\ calculate_instance_path_for_profile(tk[t].call.profile) \notin dirs

\* The versions of a list.
Listed(dep_versions) == {dep_versions[i] : i \in DOMAIN dep_versions}

\* The choice for task t is made by the order of the policy, the second rule
\* looking for the game versions wanted: the version of the id named when it is
\* listed; else a most recently published one among those that support a wanted
\* game version; else a most recently published one of the list.
ChosenByPolicy(t, wanted) ==
    LET input == tk[t].call.input
        all == Listed(input.dep_versions)
        exact == {v \in all : input.target_version_id # None /\ v.id = input.target_version_id}
        supporting == {v \in all : v.game_versions \cap wanted # {}}
        candidates == IF exact # {} THEN exact
                      ELSE IF supporting # {} THEN supporting ELSE all
    IN  /\ tk[t].ret \subseteq candidates
        /\ candidates # {} => tk[t].ret # {}
        /\ \A v \in tk[t].ret : \A w \in candidates : w.date_published <= v.date_published

Selected(t) == tk[t].pc = "done" /\ tk[t].call.name = "best_dep_version"

\* C25 (as stated): the version chosen for a required dependency that names a
\* project is the one with the dependency's exact version id when it is listed;
\* otherwise the most recently published one whose game versions intersect the
\* parent mod's; otherwise the most recently published one of the list.
C25_ChosenAgainstParentOnly ==
    \A t \in Tasks :
       Selected(t) => ChosenByPolicy(t, tk[t].call.input.parent_game_versions)

\* C25 (amended): as above, but when the parent's version lists no game version
\* the second rule looks for the profile's game version instead.
C25_ChosenAgainstParentOrProfile ==
    \A t \in Tasks :
       Selected(t) =>
          ChosenByPolicy(t, IF tk[t].call.input.parent_game_versions # {}
                            THEN tk[t].call.input.parent_game_versions
                            ELSE {tk[t].call.input.profile_game_version})

\* A parent without game versions, no version id named: the older version, for
\* the profile's game version, is chosen before the newer one.
C25_ProfileVersionPreferred ==
    \E t \in Tasks :
       /\ Selected(t)
       /\ tk[t].call.input.parent_game_versions = {}
       /\ tk[t].call.input.target_version_id = None
       /\ \E v \in tk[t].ret :
             /\ tk[t].call.input.profile_game_version \in v.game_versions
             /\ \E w \in Listed(tk[t].call.input.dep_versions) :
                   w.date_published > v.date_published

\* The projects that the required dependencies of the versions vs name, by
\* project or by version alone.
RequiredProjects(platform, vs) ==
    LET deps == UNION {{v.dependencies[i] : i \in DOMAIN v.dependencies} : v \in vs}
    IN  {d.project_id : d \in {e \in deps : e.required /\ e.project_id # None}}
        \cup {w.project_id : w \in {x \in AllVersions(platform) :
                                       \E d \in deps : /\ d.required
                                                       /\ d.project_id = None
                                                       /\ d.version_id = x.id}}

\* The projects reached from projects ps over at most n required dependencies
\* of any of their versions.
RECURSIVE RequiredClosure(_, _, _)
RequiredClosure(platform, ps, n) ==
    IF n = 0 THEN ps
    ELSE RequiredClosure(platform,
                         ps \cup RequiredProjects(platform,
                                                  {v \in AllVersions(platform) :
                                                      v.project_id \in ps}),
                         n - 1)

\* The projects the running operation of task t may install: the project of the
\* version it was called for, and what that version requires, directly or not.
OnAccountOfRequired(t) ==
    LET root == tk[t].stack[1]
        version == {v \in AllVersions(root.platform) :
                       v.id = root.version_id /\ v.project_id = root.project_id}
    IN  {root.project_id}
        \cup RequiredClosure(root.platform, RequiredProjects(root.platform, version),
                             Cardinality(DOMAIN catalog[root.platform]))

\* C26: dependency installation follows only dependencies of the required
\* kind: in add_modrinth_mod, add_mod_from_payload and the version switches no
\* Mod record is inserted and no recursion is started for a project that the
\* version is tied to only by optional, incompatible or embedded dependencies.
C26_OnlyRequiredFollowed ==
    [][\A t \in Tasks :
          tk[t].stack # <<>> =>
             /\ \A p \in DOMAIN profiles' \cap DOMAIN profiles :
                \A i \in DOMAIN profiles'[p].mods :
                   i > Len(profiles[p].mods) =>
                      profiles'[p].mods[i].source.project_id \in OnAccountOfRequired(t)
             /\ \A k \in DOMAIN tk'[t].stack :
                   tk'[t].stack[k].project_id \in OnAccountOfRequired(t)]_vars

\* add_modrinth_mod for A 2.0 with its dependencies has returned without a
\* failure: the required B (and its C) is installed, the optional D is not.
C26_OptionalPassedOver ==
    \E t \in Tasks :
       /\ tk[t].pc = "done"
       /\ tk[t].call.name = "add_modrinth_mod"
       /\ tk[t].call.source.version_id = "a2"
       /\ tk[t].call.add_dependencies
       /\ tk[t].ret = "ok"
       /\ nFaults = 0
       /\ Carrying(profiles["p1"].mods, tk[t].call.source) # {}
       /\ "B" \in existing_project_ids(profiles["p1"].mods, "Modrinth")
       /\ "D" \notin existing_project_ids(profiles["p1"].mods, "Modrinth")

InModrinthSwitch(t) == tk[t].call.name = "update_profile_modrinth_mod_version"

\* Mod m is the instance that the switch of task t is for, and carries the
\* source (with the primary file), the version and the game versions of the
\* version switched to.
SwitchedTo(m, t) ==
    LET v == tk[t].call.new_version_details
    IN  /\ m.id = tk[t].call.mod_id
        /\ \E f \in PrimaryFile(v) :
              m.source = ModSource("Modrinth", v.project_id, v.id, f.filename)
        /\ m.version = v.version_number
        /\ m.game_versions = v.game_versions

\* The file on disk holds the instance as switched by task t.
SwitchPersisted(t) ==
    /\ file.state = "valid"
    /\ \E j \in file.data :
          /\ j.id = tk[t].call.profile_id
          /\ \E i \in DOMAIN j.mods : SwitchedTo(ModFromJson(j.mods[i]), t)

\* The switch can fetch a version with a primary file for dependency d: the
\* version d names, or the latest for the profile's loader and game version.
FetchableDependency(d, profile) ==
    \/ /\ d.version_id # None
       /\ \E w \in get_version_details("Modrinth", d.version_id) : PrimaryFile(w) # {}
    \/ \E w \in max_by_key(get_mod_versions("Modrinth", d.project_id,
                                            {as_str(profile.loader)},
                                            {profile.game_version})) :
          PrimaryFile(w) # {}

\* C27: after a successful update_profile_modrinth_mod_version the instance
\* carries the new version's source, version and game versions, and the change
\* is on disk before any dependency is installed; every required dependency
\* project of the new version that was not installed, and for which a version
\* with a primary file can be fetched, is then added, with recursion disabled:
\* nothing but direct required dependencies is added by the switch.
C27_SwitchedPersistedThenDirectDependencies ==
    /\ [](\A t \in Tasks :
             (/\ InModrinthSwitch(t)
              /\ tk[t].pc = "done"
              /\ tk[t].ret = "ok"
              /\ nFaults = 0) =>
                LET profile == profiles[tk[t].call.profile_id]
                    v == tk[t].call.new_version_details
                IN  /\ \E i \in DOMAIN profile.mods : SwitchedTo(profile.mods[i], t)
                    /\ SwitchPersisted(t)
                    /\ \A k \in DOMAIN v.dependencies :
                          (/\ v.dependencies[k].required
                           /\ v.dependencies[k].project_id # None
                           /\ FetchableDependency(v.dependencies[k], profile)) =>
                             v.dependencies[k].project_id
                                \in existing_project_ids(profile.mods, "Modrinth"))
    /\ [][\A t \in Tasks :
             (InModrinthSwitch(t) /\ tk[t].stack # <<>>) =>
                LET p == tk[t].call.profile_id
                    v == tk[t].call.new_version_details
                IN  /\ (tk[t].pc = "swm_saved" /\ tk'[t].pc # "done") =>
                          /\ SwitchPersisted(t)
                          /\ profiles' = profiles
                    /\ (tk[t].pc # "swm_saved" /\ tk'[t].pc = "swm_dep") =>
                          Len(tk[t].stack) = 2 \/ tk[t].pc = "swm_dep"
                    /\ (p \in DOMAIN profiles /\ p \in DOMAIN profiles'
                        /\ Len(profiles'[p].mods) > Len(profiles[p].mods)) =>
                          /\ Len(tk[t].stack) = 2
                          /\ tk[t].stack[1].ret_pc = "swm_dep"
                          /\ ~Top(t).add_dependencies
                          /\ Len(profiles'[p].mods) = Len(profiles[p].mods) + 1
                          /\ profiles'[p].mods[Len(profiles'[p].mods)].source.project_id
                                \in RequiredProjects("Modrinth", {v})]_vars

\* The switch of A from 1.0 to 2.0 in a profile without B has returned without
\* a failure: A is at 2.0 in memory and on disk, B was added, its own
\* requirement C was not.
C27_MissingDependencyAddedAlone ==
    \E t \in Tasks :
       /\ InModrinthSwitch(t)
       /\ tk[t].pc = "done"
       /\ tk[t].ret = "ok"
       /\ nFaults = 0
       /\ tk[t].call.new_version_details.id = "a2"
       /\ \E i \in DOMAIN profiles["p1"].mods : SwitchedTo(profiles["p1"].mods[i], t)
       /\ SwitchPersisted(t)
       /\ Len(profiles["p1"].mods) = 3
       /\ "B" \in existing_project_ids(profiles["p1"].mods, "Modrinth")
       /\ "C" \notin existing_project_ids(profiles["p1"].mods, "Modrinth")

VersionSwitches ==
    {"update_profile_modrinth_mod_version", "update_profile_curseforge_mod_version",
     "update_mod_with_switch_content_version_payload"}

\* The projects of the registries that the mods of a list are of.
InstalledProjects(mods) ==
    {<<mods[i].source.variant, mods[i].source.project_id>> :
        i \in {j \in DOMAIN mods : mods[j].source.variant # "Local"}}

\* The operations names add no record for a project that was installed in the
\* profile when the operation began.
AddOnlyMissing(names) ==
    \A t \in Tasks :
          (tk[t].call.name \in names /\ tk[t].stack # <<>>) =>
             LET p == tk[t].call.profile_id
             IN  (p \in DOMAIN profiles /\ p \in DOMAIN profiles') =>
                    \A i \in DOMAIN profiles'[p].mods :
                       i > Len(profiles[p].mods) =>
                          <<profiles'[p].mods[i].source.variant,
                            profiles'[p].mods[i].source.project_id>>
                             \notin InstalledProjects(tk[t].call.before)

\* C28: a version switch installs only projects that are missing from the
\* profile: no switch (Modrinth, CurseForge or unified payload) adds a Mod
\* record for a required dependency whose project was installed in the profile
\* before the switch.
C28_SwitchAddsOnlyMissingProjects == [][AddOnlyMissing(VersionSwitches)]_vars

\* The mod instances that the unified switch of task t selects (none or one).
SelectedInstance(t) ==
    LET p == tk[t].call.profile_id
        mods == IF p \in DOMAIN profiles THEN profiles[p].mods ELSE <<>>
    IN  UNION {Find(mods, [i \in DOMAIN mods |-> IsCurrentItem(mods[i], current_item)]) :
                  current_item \in tk[t].call.current_item_details}

\* C29: update_mod_with_switch_content_version_payload verifies that the
\* project identity is unchanged: when the new version's project id (or
\* platform) differs from that of the mod instance it selected, it returns an
\* error and leaves the Mod record unmodified.
C29_UnifiedSwitchRejectsOtherProject ==
    [][\A t \in Tasks :
          (/\ tk[t].pc = "swp_apply"
           /\ tk'[t] # tk[t]
           /\ \E m \in SelectedInstance(t) :
                 \/ m.source.project_id # tk[t].call.new_version_details.project_id
                 \/ m.source.variant # tk[t].call.platform) =>
             /\ tk'[t].pc = "done"
             /\ tk'[t].ret # "ok"
             /\ profiles' = profiles]_vars

\* C30: the delete-safety guarantee holds under concurrency: in every
\* interleaving of delete_profile with concurrent create_profile or
\* update_profile calls, no directory is moved to trash while a profile that is
\* in the registry at the moment of the move resolves to it.
C30_NoTrashWhileAnotherResolves ==
    [][\A t \in Tasks :
          MovesToTrash(t) =>
             \A k \in DOMAIN profiles \ {tk[t].call.id} :
                calculate_instance_path_for_profile(profiles[k]) # TrashTarget(t)]_vars

\* The step in which ensure_profiles_loaded installs the loaded collection.
Installs(t) == tk[t].pc = "ensure_install" /\ tk'[t].pc # "ensure_install"

\* C31: ensure_profiles_loaded never discards an in-memory profile: in every
\* interleaving with a concurrent create_profile or update_profile, a profile
\* that is in the map when the loaded collection is installed is in the map
\* afterwards.
C31_InstallKeepsInserted ==
    [][\A t \in Tasks :
          Installs(t) => \A k \in DOMAIN profiles : k \in DOMAIN profiles']_vars

\* The operation of task t has returned Ok.
ReturnedOk(t, name) == tk[t].pc = "done" /\ tk[t].call.name = name /\ tk[t].ret = "ok"

\* ensure_profiles_loaded of task t found a profile in the map and loaded nothing.
FoundLoaded(t) ==
    ReturnedOk(t, "ensure_profiles_loaded") /\ tk[t].loc.attempt_count = 0

\* The ids of the profiles that profiles.json holds.
PersistedIds == IF file.state = "valid" THEN {j.id : j \in file.data} ELSE {}

\* C32: the deferred load protects the persisted data: after a create_profile
\* issued before the registry has loaded the persisted file, and the load, the
\* registry and the persisted file hold the previously persisted profile
\* together with the created one.
C32_CreateBeforeLoadKeepsPersisted ==
    \A t, u \in Tasks :
       (ReturnedOk(t, "create_profile") /\ FoundLoaded(u)) =>
          /\ {Persisted.id, tk[t].call.id} \subseteq DOMAIN profiles
          /\ {Persisted.id, tk[t].call.id} \subseteq PersistedIds

\* The collections a load of the persisted store can yield: what the file holds,
\* or, the file being absent or unparsable, what the most recent backup holds,
\* or nothing.
LoadYields ==
    IF file.state = "valid" THEN CollectById(file.data)
    ELSE {EmptyMap} \cup
         (IF backups # <<>> /\ backups[Len(backups)].state = "valid"
          THEN CollectById(backups[Len(backups)].data) ELSE {})

\* C33: a successful delete_profile is durable: once it has returned success,
\* loading the persisted store yields a collection without the deleted profile,
\* whatever the registry held, the deleted profile being the last one and
\* backups existing included.
C33_DeleteIsDurable ==
    \A t \in Tasks :
       ReturnedOk(t, "delete_profile") =>
          \A loaded \in LoadYields : tk[t].call.id \notin DOMAIN loaded

\* The step in which update_profile inserts its record.
UpdateInserts(t) == tk[t].pc = "update_insert" /\ tk'[t].pc # "update_insert"

\* C34: in every reachable state every entry of the profile map is stored under
\* the key equal to the record's own id; consequently update_profile replaces
\* exactly the record with the given id and never adds an entry.
C34_KeyedByOwnId ==
    /\ [](\A k \in DOMAIN profiles : profiles[k].id = k)
    /\ [][\A t \in Tasks :
             UpdateInserts(t) =>
                /\ DOMAIN profiles' = DOMAIN profiles
                /\ \A k \in DOMAIN profiles \ {tk[t].call.id} :
                      profiles'[k] = profiles[k]]_vars

\* Task t is inside load_profiles_internal.
Loading(t) == tk[t].pc = "load_loop"

\* One pass of the loop of load_profiles_internal by task t.
LoadPass(t) == Loading(t) /\ tk'[t] # tk[t]

\* The file operations that failed in the pass.
NewFaults(t) == tk'[t].loc.faults \ tk[t].loc.faults

\* The pass called restore_from_backup: the backup replaced the file, or the
\* restoration failed.
Restores(t) == file' # file \/ "restore" \in NewFaults(t)

\* C35: load_profiles_internal always terminates after at most two
\* read-and-parse attempts: a failure on the first attempt triggers at most one
\* backup restoration and one retry, and a failure on the second attempt
\* returns an empty collection instead of retrying again.
C35_LoadEndsWithinTwoAttempts ==
    /\ [][\A t \in Tasks :
             LoadPass(t) =>
                /\ tk'[t].loc.attempt_count = tk[t].loc.attempt_count + 1
                /\ tk'[t].loc.attempt_count <= 2
                /\ Restores(t) => tk[t].loc.attempt_count = 0
                /\ tk[t].loc.attempt_count = 1 =>
                      /\ tk'[t].pc = "done"
                      /\ tk'[t].ret = "ok"
                      /\ (file.state # "valid" \/ "read" \in NewFaults(t)) =>
                            tk'[t].loc.loaded = EmptyMap]_vars
    /\ \A t \in Tasks : Loading(t) ~> (tk[t].pc = "done")

\* A load whose second attempt failed and that returned the empty collection.
C35_SecondAttemptFailed ==
    \E t \in Tasks :
       /\ ReturnedOk(t, "load_profiles_internal")
       /\ tk[t].loc.attempt_count = 2
       /\ "read" \in tk[t].loc.faults
       /\ tk[t].loc.loaded = EmptyMap

\* mod_key of the activation f.
ModKey(f) == <<f.project_id, f.version_id>>

\* The keys of the activations of add_modrinth_mod_internal below the i-th of
\* task t: the call's ancestors in the recursion.
AncestorKeys(t, i) ==
    {ModKey(tk[t].stack[j]) : j \in {k \in 1..(i - 1) :
                                       tk[t].stack[k].fn = "add_modrinth_mod_internal"}}

\* The i-th activation of task t has not yet looked at its visited set.
Entering(t, i) == i = Len(tk[t].stack) /\ tk[t].pc = "mr_enter"

\* Every activation holds its ancestors' keys: as received on entry, and with
\* its own key added once the check has passed, a key that no ancestor has.
VisitedAreAncestors(t) ==
    \A i \in DOMAIN tk[t].stack :
       LET f == tk[t].stack[i]
       IN  f.fn = "add_modrinth_mod_internal" =>
              IF Entering(t, i)
              THEN f.visited_mods = AncestorKeys(t, i)
              ELSE /\ f.visited_mods = AncestorKeys(t, i) \cup {ModKey(f)}
                   /\ ModKey(f) \notin AncestorKeys(t, i)

\* The step of task t that checks the visited set returns at once exactly for
\* a key of an ancestor.
SkipsOnlyAncestors(t) ==
    (tk[t].pc = "mr_enter" /\ tk'[t] # tk[t]) =>
       (tk'[t].pc # "mr_lock" <=> ModKey(Top(t)) \in AncestorKeys(t, Len(tk[t].stack)))

\* The step of task t that pushes a Mod pushes one whose source no Mod has.
PushesOnce(t) ==
    (tk[t].pc = "mr_push" /\ profiles' # profiles) =>
       ~AnySourceIs(profiles[tk[t].call.profile_id].mods, SourceOf(Top(t)))

\* C36: in every recursive call of add_modrinth_mod_internal the visited set
\* received is exactly the set of (project, version) keys of the call's
\* ancestors: a key processed in a sibling branch does not suppress the
\* processing of the same key in another branch, and a dependency reachable
\* through two parents is processed in both branches and inserted once.
C36_VisitedAreTheAncestors ==
    /\ [](\A t \in Tasks : VisitedAreAncestors(t))
    /\ [][\A t \in Tasks : SkipsOnlyAncestors(t) /\ PushesOnce(t)]_vars

\* A dependency that another branch has inserted is processed again, by a call
\* whose ancestors do not hold its key, and found in the profile.
C36_ProcessedAgainInSibling ==
    \E t \in Tasks :
       /\ tk[t].pc = "mr_push"
       /\ Len(tk[t].stack) = 2
       /\ Top(t).fn = "add_modrinth_mod_internal"
       /\ Top(t).exists
       /\ ModKey(Top(t)) \notin AncestorKeys(t, 2)
       /\ ~AnySourceIs(tk[t].call.before, SourceOf(Top(t)))

\* The custom_mods directory of the profile that task t names, when the
\* registry has it.
CustomModsPathOf(t) ==
    {custom_mods_dir(profiles[k]) : k \in {tk[t].call.profile_id} \cap DOMAIN profiles}

\* The forms under which the mod that task t names is in the file set files:
\* "plain", "disabled".
FormsIn(t, files) ==
    {form \in {"plain", "disabled"} :
        \E path \in CustomModsPathOf(t) :
           Append(path, IF form = "plain" THEN tk[t].call.filename
                        ELSE disabled_filename(tk[t].call.filename)) \in files}

\* The name is of the suffixed form.
DisabledForm(filename) == \E base \in CustomFilenames : filename = Append(base, ".disabled")

\* set_custom_mod_enabled of task t has returned.
Toggled(t) == tk[t].pc = "done" /\ tk[t].call.name = "set_custom_mod_enabled"

\* C37: the custom-mod toggle is a two-state machine on file names: with the
\* mod under exactly one of the forms name and name.disabled, a successful
\* set_custom_mod_enabled(name, b) leaves it under exactly one form, the plain
\* one when b is true and the suffixed one when b is false; a base name ending
\* in .disabled, and a mod under neither form, yield an error and no file
\* change.
C37_ToggleIsTwoStateMachine ==
    \A t \in Tasks :
       Toggled(t) =>
          /\ (tk[t].ret = "ok" /\ Cardinality(FormsIn(t, tk[t].call.before)) = 1) =>
                FormsIn(t, dirs) = {IF tk[t].call.set_enabled THEN "plain" ELSE "disabled"}
          /\ (DisabledForm(tk[t].call.filename) \/ FormsIn(t, tk[t].call.before) = {}) =>
                /\ tk[t].ret # "ok"
                /\ dirs = tk[t].call.before

\* A disabled mod that was enabled: the file has changed its name.
C37_DisabledModEnabled ==
    \E t \in Tasks :
       /\ Toggled(t)
       /\ tk[t].ret = "ok"
       /\ tk[t].call.set_enabled
       /\ FormsIn(t, tk[t].call.before) = {"disabled"}
       /\ FormsIn(t, dirs) = {"plain"}

\* The special-cased client group names, compared without regard to case.
ClientGroupName(group_name) ==
    to_lowercase(group_name) \in {<<"nrc">>, <<"geg">>, <<"geg", " ", "client">>}

\* The client directory for the game version.
ClientDirectory(game_version) ==
    default_profile_path \o
        << <<"GEG">>, IF is_legacy_minecraft_version(game_version) THEN <<"legacy">>
                      ELSE <<"new">> >>

\* C38: for a profile that has a group and whose effective shared-folder flag is
\* true, the instance path is the client directory GEG/legacy or GEG/new, by
\* whether the game version is legacy, when the group is one of the client
\* group names ('nrc', 'GEG', 'GEG client', compared case-insensitively), and
\* groups/<sanitized lower-cased group name> for every other group; for every
\* other profile it is the base directory joined with the non-empty segments of
\* the path fragment.
C38_InstancePathByGroup ==
    \A t \in Tasks :
       PathResolved(t) =>
          LET profile == tk[t].call.profile
          IN  IF profile.group # <<>> /\ should_use_shared_minecraft_folder(profile)
              THEN IF ClientGroupName(profile.group)
                   THEN tk[t].ret = ClientDirectory(profile.game_version)
                   ELSE tk[t].ret = default_profile_path \o
                                       << <<"groups">>, sanitize_group_name(profile.group) >>
              ELSE tk[t].ret = build_path_from_profile_path(profile)

\* Task t has the answer of get_profile_mods_path.
ModsPathResolved(t) == tk[t].pc = "done" /\ tk[t].call.name = "get_profile_mods_path"

\* The answer of task t is of the shared form (of the single form): the form
\* that carries the short id of the profile (that carries none); the two forms
\* are one and the same path for a loader other than Fabric.
SharedForm(t) == tk[t].ret = get_profile_mods_path_shared(tk[t].call.profile)
SingleForm(t) == tk[t].ret = get_profile_mods_path_single(tk[t].call.profile)

\* C39 as stated: get_profile_mods_path returns the shared form exactly when
\* should_use_shared_minecraft_folder is true and the single form exactly when
\* it is false, for every profile.
C39_ModsPathByFlagAlone ==
    \A t \in Tasks :
       ModsPathResolved(t) =>
          IF should_use_shared_minecraft_folder(tk[t].call.profile)
          THEN SharedForm(t)
          ELSE SingleForm(t)

\* C39: get_profile_mods_path returns the shared form exactly when
\* should_use_shared_minecraft_folder is true and the profile is not a standard
\* version, and the single form otherwise.
C39_ModsPathByFlagUnlessStandard ==
    \A t \in Tasks :
       ModsPathResolved(t) =>
          IF /\ should_use_shared_minecraft_folder(tk[t].call.profile)
             /\ ~tk[t].call.profile.is_standard_version
          THEN SharedForm(t)
          ELSE SingleForm(t)

\* A standard version with the effective flag true, resolved to the single form
\* and not to the shared one.
C39_StandardVersionGetsSingle ==
    \E t \in Tasks :
       /\ ModsPathResolved(t)
       /\ tk[t].call.profile.is_standard_version
       /\ should_use_shared_minecraft_folder(tk[t].call.profile)
       /\ SingleForm(t)
       /\ ~SharedForm(t)

\* Task t has the answer of get_profile_mods_path_shared for a profile in
\* shared mode.
SharedModsPathResolved(t) ==
    /\ tk[t].pc = "done"
    /\ tk[t].call.name = "get_profile_mods_path_shared"
    /\ should_use_shared_minecraft_folder(tk[t].call.profile)

\* C40: in shared mode, two distinct profiles that resolve to the same instance
\* directory get distinct mods directories from get_profile_mods_path_shared,
\* for every loader and every pair of distinct profile ids.
C40_SharedModsPathsDistinct ==
    \A t, u \in Tasks :
       (/\ SharedModsPathResolved(t)
        /\ SharedModsPathResolved(u)
        /\ tk[t].call.profile.id # tk[u].call.profile.id
        /\ calculate_instance_path_for_profile(tk[t].call.profile)
              = calculate_instance_path_for_profile(tk[u].call.profile)) =>
          tk[t].ret # tk[u].ret

=============================================================================
